---- MODULE Spec2Model ----
(***************************************************************************)
(* A model of the text utilities of financial_utils.py (FinancialAnalyzer) *)
(* and of the document handling of app.py (FinancialPDFAssistant).         *)
(* The texts of the text utilities are sequences of code points, and the   *)
(* numbers they compute are IEEE 754 doubles.                              *)
(***************************************************************************)
EXTENDS Integers, Sequences, FiniteSets, TLC

VARIABLES
    pc,        \* "call" before the modelled function runs, "return" or "raise" after;
               \* the position reached inside a method of app.py
    text,      \* the text argument of the text functions
    metrics,   \* the metrics dict (floats): result of extraction, argument of the
               \* ratios
    analysis,  \* the analysis dict given to generate_investment_summary
    doc_type,  \* result of identify_document_type
    dates,     \* result of extract_key_dates (a list)
    ratios,    \* result of calculate_financial_ratios
    summary,   \* result of generate_investment_summary
    raised,    \* the exception that left the function, "none" when it returned
    pdf_file,  \* the uploaded file given to extract_pdf_content
    tmp_file,  \* the temporary file on disk: "none", "exists" or "deleted"
    doc,       \* the document handle: "none", "open" or "closed"
    page_num,  \* the loop variable of the two page loops
    full_text, \* the text collected so far
    images,    \* the images collected so far
    content    \* the dict extract_pdf_content returns

\* the state of extract_pdf_content
pdfvars == <<pdf_file, tmp_file, doc, page_num, full_text, images, content>>

vars == <<pc, text, metrics, analysis, doc_type, dates, ratios, summary, raised, pdfvars>>

\* extract_pdf_content not called
PdfIdle ==
    /\ pdf_file = [readable |-> TRUE, valid |-> TRUE, pages |-> << >>]
    /\ tmp_file = "none"
    /\ doc = "none"
    /\ page_num = 0
    /\ full_text = ""
    /\ images = << >>
    /\ content = [k \in {} |-> 0]

(***************************************************************************)
(* Bounds of the checked inputs.                                           *)
(***************************************************************************)
MaxClassifyFragments == 3
MaxMetricFragments == 3
MaxDenominator == 5
MaxDateFragments == 3
MaxAnalyzeFragments == 2
MaxPages == 3

(***************************************************************************)
(* Strings.  A str is the sequence of the code points (ord) of its         *)
(* characters; Str writes one from printable ASCII characters.             *)
(***************************************************************************)
\* the printable ASCII characters (but the backquote) in runs, each after the code
\* point of its first character
AsciiRuns == {
    <<32, " !\"#$%&'()*+,-./0123456789:;<=>?@ABCDEFGHIJKLMNOPQRSTUVWXYZ[\\]^_">>,
    <<97, "abcdefghijklmnopqrstuvwxyz{|}~">> }

\* ord(c) of these characters
Ord ==
    [c \in UNION {{SubSeq(r[2], i, i) : i \in 1..Len(r[2])} : r \in AsciiRuns} |->
        LET r == CHOOSE r \in AsciiRuns : \E i \in 1..Len(r[2]) : SubSeq(r[2], i, i) = c
        IN  r[1] - 1 + (CHOOSE i \in 1..Len(r[2]) : SubSeq(r[2], i, i) = c)]

\* the str with the characters of s
Str(s) == [i \in 1..Len(s) |-> Ord[SubSeq(s, i, i)]]

\* ord(s[i - 1])
Char(s, i) == s[i]

(***************************************************************************)
(* The character tables of the Python runtime (Unicode 14.0.0), which      *)
(* str.lower() and the re module read.                                     *)
(***************************************************************************)
\* the ranges of code points that are word characters (\w, and the characters \b reads)
\* for a str pattern: alphanumeric characters and the underscore
WordRanges == {
    <<48, 57>>, <<65, 90>>, <<95, 95>>, <<97, 122>>, <<170, 170>>, <<178, 179>>, <<181, 181>>,
    <<185, 186>>, <<188, 190>>, <<192, 214>>, <<216, 246>>, <<248, 705>>, <<710, 721>>,
    <<736, 740>>, <<748, 748>>, <<750, 750>>, <<880, 884>>, <<886, 887>>, <<890, 893>>,
    <<895, 895>>, <<902, 902>>, <<904, 906>>, <<908, 908>>, <<910, 929>>, <<931, 1013>>,
    <<1015, 1153>>, <<1162, 1327>>, <<1329, 1366>>, <<1369, 1369>>, <<1376, 1416>>,
    <<1488, 1514>>, <<1519, 1522>>, <<1568, 1610>>, <<1632, 1641>>, <<1646, 1647>>,
    <<1649, 1747>>, <<1749, 1749>>, <<1765, 1766>>, <<1774, 1788>>, <<1791, 1791>>,
    <<1808, 1808>>, <<1810, 1839>>, <<1869, 1957>>, <<1969, 1969>>, <<1984, 2026>>,
    <<2036, 2037>>, <<2042, 2042>>, <<2048, 2069>>, <<2074, 2074>>, <<2084, 2084>>,
    <<2088, 2088>>, <<2112, 2136>>, <<2144, 2154>>, <<2160, 2183>>, <<2185, 2190>>,
    <<2208, 2249>>, <<2308, 2361>>, <<2365, 2365>>, <<2384, 2384>>, <<2392, 2401>>,
    <<2406, 2415>>, <<2417, 2432>>, <<2437, 2444>>, <<2447, 2448>>, <<2451, 2472>>,
    <<2474, 2480>>, <<2482, 2482>>, <<2486, 2489>>, <<2493, 2493>>, <<2510, 2510>>,
    <<2524, 2525>>, <<2527, 2529>>, <<2534, 2545>>, <<2548, 2553>>, <<2556, 2556>>,
    <<2565, 2570>>, <<2575, 2576>>, <<2579, 2600>>, <<2602, 2608>>, <<2610, 2611>>,
    <<2613, 2614>>, <<2616, 2617>>, <<2649, 2652>>, <<2654, 2654>>, <<2662, 2671>>,
    <<2674, 2676>>, <<2693, 2701>>, <<2703, 2705>>, <<2707, 2728>>, <<2730, 2736>>,
    <<2738, 2739>>, <<2741, 2745>>, <<2749, 2749>>, <<2768, 2768>>, <<2784, 2785>>,
    <<2790, 2799>>, <<2809, 2809>>, <<2821, 2828>>, <<2831, 2832>>, <<2835, 2856>>,
    <<2858, 2864>>, <<2866, 2867>>, <<2869, 2873>>, <<2877, 2877>>, <<2908, 2909>>,
    <<2911, 2913>>, <<2918, 2927>>, <<2929, 2935>>, <<2947, 2947>>, <<2949, 2954>>,
    <<2958, 2960>>, <<2962, 2965>>, <<2969, 2970>>, <<2972, 2972>>, <<2974, 2975>>,
    <<2979, 2980>>, <<2984, 2986>>, <<2990, 3001>>, <<3024, 3024>>, <<3046, 3058>>,
    <<3077, 3084>>, <<3086, 3088>>, <<3090, 3112>>, <<3114, 3129>>, <<3133, 3133>>,
    <<3160, 3162>>, <<3165, 3165>>, <<3168, 3169>>, <<3174, 3183>>, <<3192, 3198>>,
    <<3200, 3200>>, <<3205, 3212>>, <<3214, 3216>>, <<3218, 3240>>, <<3242, 3251>>,
    <<3253, 3257>>, <<3261, 3261>>, <<3293, 3294>>, <<3296, 3297>>, <<3302, 3311>>,
    <<3313, 3314>>, <<3332, 3340>>, <<3342, 3344>>, <<3346, 3386>>, <<3389, 3389>>,
    <<3406, 3406>>, <<3412, 3414>>, <<3416, 3425>>, <<3430, 3448>>, <<3450, 3455>>,
    <<3461, 3478>>, <<3482, 3505>>, <<3507, 3515>>, <<3517, 3517>>, <<3520, 3526>>,
    <<3558, 3567>>, <<3585, 3632>>, <<3634, 3635>>, <<3648, 3654>>, <<3664, 3673>>,
    <<3713, 3714>>, <<3716, 3716>>, <<3718, 3722>>, <<3724, 3747>>, <<3749, 3749>>,
    <<3751, 3760>>, <<3762, 3763>>, <<3773, 3773>>, <<3776, 3780>>, <<3782, 3782>>,
    <<3792, 3801>>, <<3804, 3807>>, <<3840, 3840>>, <<3872, 3891>>, <<3904, 3911>>,
    <<3913, 3948>>, <<3976, 3980>>, <<4096, 4138>>, <<4159, 4169>>, <<4176, 4181>>,
    <<4186, 4189>>, <<4193, 4193>>, <<4197, 4198>>, <<4206, 4208>>, <<4213, 4225>>,
    <<4238, 4238>>, <<4240, 4249>>, <<4256, 4293>>, <<4295, 4295>>, <<4301, 4301>>,
    <<4304, 4346>>, <<4348, 4680>>, <<4682, 4685>>, <<4688, 4694>>, <<4696, 4696>>,
    <<4698, 4701>>, <<4704, 4744>>, <<4746, 4749>>, <<4752, 4784>>, <<4786, 4789>>,
    <<4792, 4798>>, <<4800, 4800>>, <<4802, 4805>>, <<4808, 4822>>, <<4824, 4880>>,
    <<4882, 4885>>, <<4888, 4954>>, <<4969, 4988>>, <<4992, 5007>>, <<5024, 5109>>,
    <<5112, 5117>>, <<5121, 5740>>, <<5743, 5759>>, <<5761, 5786>>, <<5792, 5866>>,
    <<5870, 5880>>, <<5888, 5905>>, <<5919, 5937>>, <<5952, 5969>>, <<5984, 5996>>,
    <<5998, 6000>>, <<6016, 6067>>, <<6103, 6103>>, <<6108, 6108>>, <<6112, 6121>>,
    <<6128, 6137>>, <<6160, 6169>>, <<6176, 6264>>, <<6272, 6276>>, <<6279, 6312>>,
    <<6314, 6314>>, <<6320, 6389>>, <<6400, 6430>>, <<6470, 6509>>, <<6512, 6516>>,
    <<6528, 6571>>, <<6576, 6601>>, <<6608, 6618>>, <<6656, 6678>>, <<6688, 6740>>,
    <<6784, 6793>>, <<6800, 6809>>, <<6823, 6823>>, <<6917, 6963>>, <<6981, 6988>>,
    <<6992, 7001>>, <<7043, 7072>>, <<7086, 7141>>, <<7168, 7203>>, <<7232, 7241>>,
    <<7245, 7293>>, <<7296, 7304>>, <<7312, 7354>>, <<7357, 7359>>, <<7401, 7404>>,
    <<7406, 7411>>, <<7413, 7414>>, <<7418, 7418>>, <<7424, 7615>>, <<7680, 7957>>,
    <<7960, 7965>>, <<7968, 8005>>, <<8008, 8013>>, <<8016, 8023>>, <<8025, 8025>>,
    <<8027, 8027>>, <<8029, 8029>>, <<8031, 8061>>, <<8064, 8116>>, <<8118, 8124>>,
    <<8126, 8126>>, <<8130, 8132>>, <<8134, 8140>>, <<8144, 8147>>, <<8150, 8155>>,
    <<8160, 8172>>, <<8178, 8180>>, <<8182, 8188>>, <<8304, 8305>>, <<8308, 8313>>,
    <<8319, 8329>>, <<8336, 8348>>, <<8450, 8450>>, <<8455, 8455>>, <<8458, 8467>>,
    <<8469, 8469>>, <<8473, 8477>>, <<8484, 8484>>, <<8486, 8486>>, <<8488, 8488>>,
    <<8490, 8493>>, <<8495, 8505>>, <<8508, 8511>>, <<8517, 8521>>, <<8526, 8526>>,
    <<8528, 8585>>, <<9312, 9371>>, <<9450, 9471>>, <<10102, 10131>>, <<11264, 11492>>,
    <<11499, 11502>>, <<11506, 11507>>, <<11517, 11517>>, <<11520, 11557>>, <<11559, 11559>>,
    <<11565, 11565>>, <<11568, 11623>>, <<11631, 11631>>, <<11648, 11670>>, <<11680, 11686>>,
    <<11688, 11694>>, <<11696, 11702>>, <<11704, 11710>>, <<11712, 11718>>, <<11720, 11726>>,
    <<11728, 11734>>, <<11736, 11742>>, <<11823, 11823>>, <<12293, 12295>>, <<12321, 12329>>,
    <<12337, 12341>>, <<12344, 12348>>, <<12353, 12438>>, <<12445, 12447>>, <<12449, 12538>>,
    <<12540, 12543>>, <<12549, 12591>>, <<12593, 12686>>, <<12690, 12693>>, <<12704, 12735>>,
    <<12784, 12799>>, <<12832, 12841>>, <<12872, 12879>>, <<12881, 12895>>, <<12928, 12937>>,
    <<12977, 12991>>, <<13312, 19903>>, <<19968, 42124>>, <<42192, 42237>>, <<42240, 42508>>,
    <<42512, 42539>>, <<42560, 42606>>, <<42623, 42653>>, <<42656, 42735>>, <<42775, 42783>>,
    <<42786, 42888>>, <<42891, 42954>>, <<42960, 42961>>, <<42963, 42963>>, <<42965, 42969>>,
    <<42994, 43009>>, <<43011, 43013>>, <<43015, 43018>>, <<43020, 43042>>, <<43056, 43061>>,
    <<43072, 43123>>, <<43138, 43187>>, <<43216, 43225>>, <<43250, 43255>>, <<43259, 43259>>,
    <<43261, 43262>>, <<43264, 43301>>, <<43312, 43334>>, <<43360, 43388>>, <<43396, 43442>>,
    <<43471, 43481>>, <<43488, 43492>>, <<43494, 43518>>, <<43520, 43560>>, <<43584, 43586>>,
    <<43588, 43595>>, <<43600, 43609>>, <<43616, 43638>>, <<43642, 43642>>, <<43646, 43695>>,
    <<43697, 43697>>, <<43701, 43702>>, <<43705, 43709>>, <<43712, 43712>>, <<43714, 43714>>,
    <<43739, 43741>>, <<43744, 43754>>, <<43762, 43764>>, <<43777, 43782>>, <<43785, 43790>>,
    <<43793, 43798>>, <<43808, 43814>>, <<43816, 43822>>, <<43824, 43866>>, <<43868, 43881>>,
    <<43888, 44002>>, <<44016, 44025>>, <<44032, 55203>>, <<55216, 55238>>, <<55243, 55291>>,
    <<63744, 64109>>, <<64112, 64217>>, <<64256, 64262>>, <<64275, 64279>>, <<64285, 64285>>,
    <<64287, 64296>>, <<64298, 64310>>, <<64312, 64316>>, <<64318, 64318>>, <<64320, 64321>>,
    <<64323, 64324>>, <<64326, 64433>>, <<64467, 64829>>, <<64848, 64911>>, <<64914, 64967>>,
    <<65008, 65019>>, <<65136, 65140>>, <<65142, 65276>>, <<65296, 65305>>, <<65313, 65338>>,
    <<65345, 65370>>, <<65382, 65470>>, <<65474, 65479>>, <<65482, 65487>>, <<65490, 65495>>,
    <<65498, 65500>>, <<65536, 65547>>, <<65549, 65574>>, <<65576, 65594>>, <<65596, 65597>>,
    <<65599, 65613>>, <<65616, 65629>>, <<65664, 65786>>, <<65799, 65843>>, <<65856, 65912>>,
    <<65930, 65931>>, <<66176, 66204>>, <<66208, 66256>>, <<66273, 66299>>, <<66304, 66339>>,
    <<66349, 66378>>, <<66384, 66421>>, <<66432, 66461>>, <<66464, 66499>>, <<66504, 66511>>,
    <<66513, 66517>>, <<66560, 66717>>, <<66720, 66729>>, <<66736, 66771>>, <<66776, 66811>>,
    <<66816, 66855>>, <<66864, 66915>>, <<66928, 66938>>, <<66940, 66954>>, <<66956, 66962>>,
    <<66964, 66965>>, <<66967, 66977>>, <<66979, 66993>>, <<66995, 67001>>, <<67003, 67004>>,
    <<67072, 67382>>, <<67392, 67413>>, <<67424, 67431>>, <<67456, 67461>>, <<67463, 67504>>,
    <<67506, 67514>>, <<67584, 67589>>, <<67592, 67592>>, <<67594, 67637>>, <<67639, 67640>>,
    <<67644, 67644>>, <<67647, 67669>>, <<67672, 67702>>, <<67705, 67742>>, <<67751, 67759>>,
    <<67808, 67826>>, <<67828, 67829>>, <<67835, 67867>>, <<67872, 67897>>, <<67968, 68023>>,
    <<68028, 68047>>, <<68050, 68096>>, <<68112, 68115>>, <<68117, 68119>>, <<68121, 68149>>,
    <<68160, 68168>>, <<68192, 68222>>, <<68224, 68255>>, <<68288, 68295>>, <<68297, 68324>>,
    <<68331, 68335>>, <<68352, 68405>>, <<68416, 68437>>, <<68440, 68466>>, <<68472, 68497>>,
    <<68521, 68527>>, <<68608, 68680>>, <<68736, 68786>>, <<68800, 68850>>, <<68858, 68899>>,
    <<68912, 68921>>, <<69216, 69246>>, <<69248, 69289>>, <<69296, 69297>>, <<69376, 69415>>,
    <<69424, 69445>>, <<69457, 69460>>, <<69488, 69505>>, <<69552, 69579>>, <<69600, 69622>>,
    <<69635, 69687>>, <<69714, 69743>>, <<69745, 69746>>, <<69749, 69749>>, <<69763, 69807>>,
    <<69840, 69864>>, <<69872, 69881>>, <<69891, 69926>>, <<69942, 69951>>, <<69956, 69956>>,
    <<69959, 69959>>, <<69968, 70002>>, <<70006, 70006>>, <<70019, 70066>>, <<70081, 70084>>,
    <<70096, 70106>>, <<70108, 70108>>, <<70113, 70132>>, <<70144, 70161>>, <<70163, 70187>>,
    <<70272, 70278>>, <<70280, 70280>>, <<70282, 70285>>, <<70287, 70301>>, <<70303, 70312>>,
    <<70320, 70366>>, <<70384, 70393>>, <<70405, 70412>>, <<70415, 70416>>, <<70419, 70440>>,
    <<70442, 70448>>, <<70450, 70451>>, <<70453, 70457>>, <<70461, 70461>>, <<70480, 70480>>,
    <<70493, 70497>>, <<70656, 70708>>, <<70727, 70730>>, <<70736, 70745>>, <<70751, 70753>>,
    <<70784, 70831>>, <<70852, 70853>>, <<70855, 70855>>, <<70864, 70873>>, <<71040, 71086>>,
    <<71128, 71131>>, <<71168, 71215>>, <<71236, 71236>>, <<71248, 71257>>, <<71296, 71338>>,
    <<71352, 71352>>, <<71360, 71369>>, <<71424, 71450>>, <<71472, 71483>>, <<71488, 71494>>,
    <<71680, 71723>>, <<71840, 71922>>, <<71935, 71942>>, <<71945, 71945>>, <<71948, 71955>>,
    <<71957, 71958>>, <<71960, 71983>>, <<71999, 71999>>, <<72001, 72001>>, <<72016, 72025>>,
    <<72096, 72103>>, <<72106, 72144>>, <<72161, 72161>>, <<72163, 72163>>, <<72192, 72192>>,
    <<72203, 72242>>, <<72250, 72250>>, <<72272, 72272>>, <<72284, 72329>>, <<72349, 72349>>,
    <<72368, 72440>>, <<72704, 72712>>, <<72714, 72750>>, <<72768, 72768>>, <<72784, 72812>>,
    <<72818, 72847>>, <<72960, 72966>>, <<72968, 72969>>, <<72971, 73008>>, <<73030, 73030>>,
    <<73040, 73049>>, <<73056, 73061>>, <<73063, 73064>>, <<73066, 73097>>, <<73112, 73112>>,
    <<73120, 73129>>, <<73440, 73458>>, <<73648, 73648>>, <<73664, 73684>>, <<73728, 74649>>,
    <<74752, 74862>>, <<74880, 75075>>, <<77712, 77808>>, <<77824, 78894>>, <<82944, 83526>>,
    <<92160, 92728>>, <<92736, 92766>>, <<92768, 92777>>, <<92784, 92862>>, <<92864, 92873>>,
    <<92880, 92909>>, <<92928, 92975>>, <<92992, 92995>>, <<93008, 93017>>, <<93019, 93025>>,
    <<93027, 93047>>, <<93053, 93071>>, <<93760, 93846>>, <<93952, 94026>>, <<94032, 94032>>,
    <<94099, 94111>>, <<94176, 94177>>, <<94179, 94179>>, <<94208, 100343>>,
    <<100352, 101589>>, <<101632, 101640>>, <<110576, 110579>>, <<110581, 110587>>,
    <<110589, 110590>>, <<110592, 110882>>, <<110928, 110930>>, <<110948, 110951>>,
    <<110960, 111355>>, <<113664, 113770>>, <<113776, 113788>>, <<113792, 113800>>,
    <<113808, 113817>>, <<119520, 119539>>, <<119648, 119672>>, <<119808, 119892>>,
    <<119894, 119964>>, <<119966, 119967>>, <<119970, 119970>>, <<119973, 119974>>,
    <<119977, 119980>>, <<119982, 119993>>, <<119995, 119995>>, <<119997, 120003>>,
    <<120005, 120069>>, <<120071, 120074>>, <<120077, 120084>>, <<120086, 120092>>,
    <<120094, 120121>>, <<120123, 120126>>, <<120128, 120132>>, <<120134, 120134>>,
    <<120138, 120144>>, <<120146, 120485>>, <<120488, 120512>>, <<120514, 120538>>,
    <<120540, 120570>>, <<120572, 120596>>, <<120598, 120628>>, <<120630, 120654>>,
    <<120656, 120686>>, <<120688, 120712>>, <<120714, 120744>>, <<120746, 120770>>,
    <<120772, 120779>>, <<120782, 120831>>, <<122624, 122654>>, <<123136, 123180>>,
    <<123191, 123197>>, <<123200, 123209>>, <<123214, 123214>>, <<123536, 123565>>,
    <<123584, 123627>>, <<123632, 123641>>, <<124896, 124902>>, <<124904, 124907>>,
    <<124909, 124910>>, <<124912, 124926>>, <<124928, 125124>>, <<125127, 125135>>,
    <<125184, 125251>>, <<125259, 125259>>, <<125264, 125273>>, <<126065, 126123>>,
    <<126125, 126127>>, <<126129, 126132>>, <<126209, 126253>>, <<126255, 126269>>,
    <<126464, 126467>>, <<126469, 126495>>, <<126497, 126498>>, <<126500, 126500>>,
    <<126503, 126503>>, <<126505, 126514>>, <<126516, 126519>>, <<126521, 126521>>,
    <<126523, 126523>>, <<126530, 126530>>, <<126535, 126535>>, <<126537, 126537>>,
    <<126539, 126539>>, <<126541, 126543>>, <<126545, 126546>>, <<126548, 126548>>,
    <<126551, 126551>>, <<126553, 126553>>, <<126555, 126555>>, <<126557, 126557>>,
    <<126559, 126559>>, <<126561, 126562>>, <<126564, 126564>>, <<126567, 126570>>,
    <<126572, 126578>>, <<126580, 126583>>, <<126585, 126588>>, <<126590, 126590>>,
    <<126592, 126601>>, <<126603, 126619>>, <<126625, 126627>>, <<126629, 126633>>,
    <<126635, 126651>>, <<127232, 127244>>, <<130032, 130041>>, <<131072, 173791>>,
    <<173824, 177976>>, <<177984, 178205>>, <<178208, 183969>>, <<183984, 191456>>,
    <<194560, 195101>>, <<196608, 201546>> }

\* the ranges of code points \d matches in a str pattern: the decimal digits of every script
DecimalRanges == {
    <<48, 57>>, <<1632, 1641>>, <<1776, 1785>>, <<1984, 1993>>, <<2406, 2415>>, <<2534, 2543>>,
    <<2662, 2671>>, <<2790, 2799>>, <<2918, 2927>>, <<3046, 3055>>, <<3174, 3183>>,
    <<3302, 3311>>, <<3430, 3439>>, <<3558, 3567>>, <<3664, 3673>>, <<3792, 3801>>,
    <<3872, 3881>>, <<4160, 4169>>, <<4240, 4249>>, <<6112, 6121>>, <<6160, 6169>>,
    <<6470, 6479>>, <<6608, 6617>>, <<6784, 6793>>, <<6800, 6809>>, <<6992, 7001>>,
    <<7088, 7097>>, <<7232, 7241>>, <<7248, 7257>>, <<42528, 42537>>, <<43216, 43225>>,
    <<43264, 43273>>, <<43472, 43481>>, <<43504, 43513>>, <<43600, 43609>>, <<44016, 44025>>,
    <<65296, 65305>>, <<66720, 66729>>, <<68912, 68921>>, <<69734, 69743>>, <<69872, 69881>>,
    <<69942, 69951>>, <<70096, 70105>>, <<70384, 70393>>, <<70736, 70745>>, <<70864, 70873>>,
    <<71248, 71257>>, <<71360, 71369>>, <<71472, 71481>>, <<71904, 71913>>, <<72016, 72025>>,
    <<72784, 72793>>, <<73040, 73049>>, <<73120, 73129>>, <<92768, 92777>>, <<92864, 92873>>,
    <<93008, 93017>>, <<120782, 120831>>, <<123200, 123209>>, <<123632, 123641>>,
    <<125264, 125273>>, <<130032, 130041>> }

\* the ranges of code points \s matches in a str pattern
SpaceRanges == {
    <<9, 13>>, <<28, 32>>, <<133, 133>>, <<160, 160>>, <<5760, 5760>>, <<8192, 8202>>,
    <<8232, 8233>>, <<8239, 8239>>, <<8287, 8287>>, <<12288, 12288>> }

\* the one-character lower-case mapping, as runs <<first, last, step, offset>>: a code point
\* c = first + k * step within a run has the lower-case c + offset; any other is its own
LowerRuns == {
    <<65, 90, 1, 32>>, <<192, 214, 1, 32>>, <<216, 222, 1, 32>>, <<256, 302, 2, 1>>,
    <<304, 304, 1, -199>>, <<306, 310, 2, 1>>, <<313, 327, 2, 1>>, <<330, 374, 2, 1>>,
    <<376, 376, 1, -121>>, <<377, 381, 2, 1>>, <<385, 385, 1, 210>>, <<386, 388, 2, 1>>,
    <<390, 390, 1, 206>>, <<391, 391, 1, 1>>, <<393, 394, 1, 205>>, <<395, 395, 1, 1>>,
    <<398, 398, 1, 79>>, <<399, 399, 1, 202>>, <<400, 400, 1, 203>>, <<401, 401, 1, 1>>,
    <<403, 403, 1, 205>>, <<404, 404, 1, 207>>, <<406, 406, 1, 211>>, <<407, 407, 1, 209>>,
    <<408, 408, 1, 1>>, <<412, 412, 1, 211>>, <<413, 413, 1, 213>>, <<415, 415, 1, 214>>,
    <<416, 420, 2, 1>>, <<422, 422, 1, 218>>, <<423, 423, 1, 1>>, <<425, 425, 1, 218>>,
    <<428, 428, 1, 1>>, <<430, 430, 1, 218>>, <<431, 431, 1, 1>>, <<433, 434, 1, 217>>,
    <<435, 437, 2, 1>>, <<439, 439, 1, 219>>, <<440, 440, 1, 1>>, <<444, 444, 1, 1>>,
    <<452, 452, 1, 2>>, <<453, 453, 1, 1>>, <<455, 455, 1, 2>>, <<456, 456, 1, 1>>,
    <<458, 458, 1, 2>>, <<459, 475, 2, 1>>, <<478, 494, 2, 1>>, <<497, 497, 1, 2>>,
    <<498, 500, 2, 1>>, <<502, 502, 1, -97>>, <<503, 503, 1, -56>>, <<504, 542, 2, 1>>,
    <<544, 544, 1, -130>>, <<546, 562, 2, 1>>, <<570, 570, 1, 10795>>, <<571, 571, 1, 1>>,
    <<573, 573, 1, -163>>, <<574, 574, 1, 10792>>, <<577, 577, 1, 1>>, <<579, 579, 1, -195>>,
    <<580, 580, 1, 69>>, <<581, 581, 1, 71>>, <<582, 590, 2, 1>>, <<880, 882, 2, 1>>,
    <<886, 886, 1, 1>>, <<895, 895, 1, 116>>, <<902, 902, 1, 38>>, <<904, 906, 1, 37>>,
    <<908, 908, 1, 64>>, <<910, 911, 1, 63>>, <<913, 929, 1, 32>>, <<931, 939, 1, 32>>,
    <<975, 975, 1, 8>>, <<984, 1006, 2, 1>>, <<1012, 1012, 1, -60>>, <<1015, 1015, 1, 1>>,
    <<1017, 1017, 1, -7>>, <<1018, 1018, 1, 1>>, <<1021, 1023, 1, -130>>,
    <<1024, 1039, 1, 80>>, <<1040, 1071, 1, 32>>, <<1120, 1152, 2, 1>>, <<1162, 1214, 2, 1>>,
    <<1216, 1216, 1, 15>>, <<1217, 1229, 2, 1>>, <<1232, 1326, 2, 1>>, <<1329, 1366, 1, 48>>,
    <<4256, 4293, 1, 7264>>, <<4295, 4295, 1, 7264>>, <<4301, 4301, 1, 7264>>,
    <<5024, 5103, 1, 38864>>, <<5104, 5109, 1, 8>>, <<7312, 7354, 1, -3008>>,
    <<7357, 7359, 1, -3008>>, <<7680, 7828, 2, 1>>, <<7838, 7838, 1, -7615>>,
    <<7840, 7934, 2, 1>>, <<7944, 7951, 1, -8>>, <<7960, 7965, 1, -8>>, <<7976, 7983, 1, -8>>,
    <<7992, 7999, 1, -8>>, <<8008, 8013, 1, -8>>, <<8025, 8031, 2, -8>>, <<8040, 8047, 1, -8>>,
    <<8072, 8079, 1, -8>>, <<8088, 8095, 1, -8>>, <<8104, 8111, 1, -8>>, <<8120, 8121, 1, -8>>,
    <<8122, 8123, 1, -74>>, <<8124, 8124, 1, -9>>, <<8136, 8139, 1, -86>>,
    <<8140, 8140, 1, -9>>, <<8152, 8153, 1, -8>>, <<8154, 8155, 1, -100>>,
    <<8168, 8169, 1, -8>>, <<8170, 8171, 1, -112>>, <<8172, 8172, 1, -7>>,
    <<8184, 8185, 1, -128>>, <<8186, 8187, 1, -126>>, <<8188, 8188, 1, -9>>,
    <<8486, 8486, 1, -7517>>, <<8490, 8490, 1, -8383>>, <<8491, 8491, 1, -8262>>,
    <<8498, 8498, 1, 28>>, <<8544, 8559, 1, 16>>, <<8579, 8579, 1, 1>>, <<9398, 9423, 1, 26>>,
    <<11264, 11311, 1, 48>>, <<11360, 11360, 1, 1>>, <<11362, 11362, 1, -10743>>,
    <<11363, 11363, 1, -3814>>, <<11364, 11364, 1, -10727>>, <<11367, 11371, 2, 1>>,
    <<11373, 11373, 1, -10780>>, <<11374, 11374, 1, -10749>>, <<11375, 11375, 1, -10783>>,
    <<11376, 11376, 1, -10782>>, <<11378, 11378, 1, 1>>, <<11381, 11381, 1, 1>>,
    <<11390, 11391, 1, -10815>>, <<11392, 11490, 2, 1>>, <<11499, 11501, 2, 1>>,
    <<11506, 11506, 1, 1>>, <<42560, 42604, 2, 1>>, <<42624, 42650, 2, 1>>,
    <<42786, 42798, 2, 1>>, <<42802, 42862, 2, 1>>, <<42873, 42875, 2, 1>>,
    <<42877, 42877, 1, -35332>>, <<42878, 42886, 2, 1>>, <<42891, 42891, 1, 1>>,
    <<42893, 42893, 1, -42280>>, <<42896, 42898, 2, 1>>, <<42902, 42920, 2, 1>>,
    <<42922, 42922, 1, -42308>>, <<42923, 42923, 1, -42319>>, <<42924, 42924, 1, -42315>>,
    <<42925, 42925, 1, -42305>>, <<42926, 42926, 1, -42308>>, <<42928, 42928, 1, -42258>>,
    <<42929, 42929, 1, -42282>>, <<42930, 42930, 1, -42261>>, <<42931, 42931, 1, 928>>,
    <<42932, 42946, 2, 1>>, <<42948, 42948, 1, -48>>, <<42949, 42949, 1, -42307>>,
    <<42950, 42950, 1, -35384>>, <<42951, 42953, 2, 1>>, <<42960, 42960, 1, 1>>,
    <<42966, 42968, 2, 1>>, <<42997, 42997, 1, 1>>, <<65313, 65338, 1, 32>>,
    <<66560, 66599, 1, 40>>, <<66736, 66771, 1, 40>>, <<66928, 66938, 1, 39>>,
    <<66940, 66954, 1, 39>>, <<66956, 66962, 1, 39>>, <<66964, 66965, 1, 39>>,
    <<68736, 68786, 1, 64>>, <<71840, 71871, 1, 32>>, <<93760, 93791, 1, 32>>,
    <<125184, 125217, 1, 34>> }

\* the ranges of code points with a distinct lower-case or upper-case form (what the re
\* module calls cased)
CasedRanges == {
    <<65, 90>>, <<97, 122>>, <<181, 181>>, <<192, 214>>, <<216, 246>>, <<248, 311>>,
    <<313, 396>>, <<398, 410>>, <<412, 425>>, <<428, 441>>, <<444, 445>>, <<447, 447>>,
    <<452, 544>>, <<546, 563>>, <<570, 596>>, <<598, 599>>, <<601, 601>>, <<603, 604>>,
    <<608, 609>>, <<611, 611>>, <<613, 614>>, <<616, 620>>, <<623, 623>>, <<625, 626>>,
    <<629, 629>>, <<637, 637>>, <<640, 640>>, <<642, 643>>, <<647, 652>>, <<658, 658>>,
    <<669, 670>>, <<837, 837>>, <<880, 883>>, <<886, 887>>, <<891, 893>>, <<895, 895>>,
    <<902, 902>>, <<904, 906>>, <<908, 908>>, <<910, 929>>, <<931, 977>>, <<981, 1013>>,
    <<1015, 1019>>, <<1021, 1153>>, <<1162, 1327>>, <<1329, 1366>>, <<1377, 1415>>,
    <<4256, 4293>>, <<4295, 4295>>, <<4301, 4301>>, <<4304, 4346>>, <<4349, 4351>>,
    <<5024, 5109>>, <<5112, 5117>>, <<7296, 7304>>, <<7312, 7354>>, <<7357, 7359>>,
    <<7545, 7545>>, <<7549, 7549>>, <<7566, 7566>>, <<7680, 7835>>, <<7838, 7838>>,
    <<7840, 7957>>, <<7960, 7965>>, <<7968, 8005>>, <<8008, 8013>>, <<8016, 8023>>,
    <<8025, 8025>>, <<8027, 8027>>, <<8029, 8029>>, <<8031, 8061>>, <<8064, 8116>>,
    <<8118, 8124>>, <<8126, 8126>>, <<8130, 8132>>, <<8134, 8140>>, <<8144, 8147>>,
    <<8150, 8155>>, <<8160, 8172>>, <<8178, 8180>>, <<8182, 8188>>, <<8486, 8486>>,
    <<8490, 8491>>, <<8498, 8498>>, <<8526, 8526>>, <<8544, 8575>>, <<8579, 8580>>,
    <<9398, 9449>>, <<11264, 11376>>, <<11378, 11379>>, <<11381, 11382>>, <<11390, 11491>>,
    <<11499, 11502>>, <<11506, 11507>>, <<11520, 11557>>, <<11559, 11559>>, <<11565, 11565>>,
    <<42560, 42605>>, <<42624, 42651>>, <<42786, 42799>>, <<42802, 42863>>, <<42873, 42887>>,
    <<42891, 42893>>, <<42896, 42900>>, <<42902, 42926>>, <<42928, 42954>>, <<42960, 42961>>,
    <<42966, 42969>>, <<42997, 42998>>, <<43859, 43859>>, <<43888, 43967>>, <<64256, 64262>>,
    <<64275, 64279>>, <<65313, 65338>>, <<65345, 65370>>, <<66560, 66639>>, <<66736, 66771>>,
    <<66776, 66811>>, <<66928, 66938>>, <<66940, 66954>>, <<66956, 66962>>, <<66964, 66965>>,
    <<66967, 66977>>, <<66979, 66993>>, <<66995, 67001>>, <<67003, 67004>>, <<68736, 68786>>,
    <<68800, 68850>>, <<71840, 71903>>, <<93760, 93823>>, <<125184, 125251>> }

\* pairs <<c, d>> of lower-case code points that re.IGNORECASE treats as the same letter
\* besides their common lower case
ExtraCases == {
    <<105, 305>>, <<115, 383>>, <<181, 956>>, <<305, 105>>, <<383, 115>>, <<837, 953>>,
    <<837, 8126>>, <<912, 8147>>, <<944, 8163>>, <<946, 976>>, <<949, 1013>>, <<952, 977>>,
    <<953, 837>>, <<953, 8126>>, <<954, 1008>>, <<956, 181>>, <<960, 982>>, <<961, 1009>>,
    <<962, 963>>, <<963, 962>>, <<966, 981>>, <<976, 946>>, <<977, 952>>, <<981, 966>>,
    <<982, 960>>, <<1008, 954>>, <<1009, 961>>, <<1013, 949>>, <<1074, 7296>>, <<1076, 7297>>,
    <<1086, 7298>>, <<1089, 7299>>, <<1090, 7300>>, <<1090, 7301>>, <<1098, 7302>>,
    <<1123, 7303>>, <<7296, 1074>>, <<7297, 1076>>, <<7298, 1086>>, <<7299, 1089>>,
    <<7300, 1090>>, <<7300, 7301>>, <<7301, 1090>>, <<7301, 7300>>, <<7302, 1098>>,
    <<7303, 1123>>, <<7304, 42571>>, <<7777, 7835>>, <<7835, 7777>>, <<8126, 837>>,
    <<8126, 953>>, <<8147, 912>>, <<8163, 944>>, <<42571, 7304>>, <<64261, 64262>>,
    <<64262, 64261>> }

\* the ranges of cased code points that are not case-ignorable: the letters str.lower()
\* looks for around a capital sigma
CasedLetterRanges == {
    <<65, 90>>, <<97, 122>>, <<170, 170>>, <<181, 181>>, <<186, 186>>, <<192, 214>>,
    <<216, 246>>, <<248, 442>>, <<444, 447>>, <<452, 659>>, <<661, 687>>, <<880, 883>>,
    <<886, 887>>, <<891, 893>>, <<895, 895>>, <<902, 902>>, <<904, 906>>, <<908, 908>>,
    <<910, 929>>, <<931, 1013>>, <<1015, 1153>>, <<1162, 1327>>, <<1329, 1366>>,
    <<1376, 1416>>, <<4256, 4293>>, <<4295, 4295>>, <<4301, 4301>>, <<4304, 4346>>,
    <<4349, 4351>>, <<5024, 5109>>, <<5112, 5117>>, <<7296, 7304>>, <<7312, 7354>>,
    <<7357, 7359>>, <<7424, 7467>>, <<7531, 7543>>, <<7545, 7578>>, <<7680, 7957>>,
    <<7960, 7965>>, <<7968, 8005>>, <<8008, 8013>>, <<8016, 8023>>, <<8025, 8025>>,
    <<8027, 8027>>, <<8029, 8029>>, <<8031, 8061>>, <<8064, 8116>>, <<8118, 8124>>,
    <<8126, 8126>>, <<8130, 8132>>, <<8134, 8140>>, <<8144, 8147>>, <<8150, 8155>>,
    <<8160, 8172>>, <<8178, 8180>>, <<8182, 8188>>, <<8450, 8450>>, <<8455, 8455>>,
    <<8458, 8467>>, <<8469, 8469>>, <<8473, 8477>>, <<8484, 8484>>, <<8486, 8486>>,
    <<8488, 8488>>, <<8490, 8493>>, <<8495, 8500>>, <<8505, 8505>>, <<8508, 8511>>,
    <<8517, 8521>>, <<8526, 8526>>, <<8544, 8575>>, <<8579, 8580>>, <<9398, 9449>>,
    <<11264, 11387>>, <<11390, 11492>>, <<11499, 11502>>, <<11506, 11507>>, <<11520, 11557>>,
    <<11559, 11559>>, <<11565, 11565>>, <<42560, 42605>>, <<42624, 42651>>, <<42786, 42863>>,
    <<42865, 42887>>, <<42891, 42894>>, <<42896, 42954>>, <<42960, 42961>>, <<42963, 42963>>,
    <<42965, 42969>>, <<42997, 42998>>, <<43002, 43002>>, <<43824, 43866>>, <<43872, 43880>>,
    <<43888, 43967>>, <<64256, 64262>>, <<64275, 64279>>, <<65313, 65338>>, <<65345, 65370>>,
    <<66560, 66639>>, <<66736, 66771>>, <<66776, 66811>>, <<66928, 66938>>, <<66940, 66954>>,
    <<66956, 66962>>, <<66964, 66965>>, <<66967, 66977>>, <<66979, 66993>>, <<66995, 67001>>,
    <<67003, 67004>>, <<68736, 68786>>, <<68800, 68850>>, <<71840, 71903>>, <<93760, 93823>>,
    <<119808, 119892>>, <<119894, 119964>>, <<119966, 119967>>, <<119970, 119970>>,
    <<119973, 119974>>, <<119977, 119980>>, <<119982, 119993>>, <<119995, 119995>>,
    <<119997, 120003>>, <<120005, 120069>>, <<120071, 120074>>, <<120077, 120084>>,
    <<120086, 120092>>, <<120094, 120121>>, <<120123, 120126>>, <<120128, 120132>>,
    <<120134, 120134>>, <<120138, 120144>>, <<120146, 120485>>, <<120488, 120512>>,
    <<120514, 120538>>, <<120540, 120570>>, <<120572, 120596>>, <<120598, 120628>>,
    <<120630, 120654>>, <<120656, 120686>>, <<120688, 120712>>, <<120714, 120744>>,
    <<120746, 120770>>, <<120772, 120779>>, <<122624, 122633>>, <<122635, 122654>>,
    <<125184, 125251>>, <<127280, 127305>>, <<127312, 127337>>, <<127344, 127369>> }

\* the ranges of case-ignorable code points, which str.lower() skips around a capital sigma
CaseIgnorableRanges == {
    <<39, 39>>, <<46, 46>>, <<58, 58>>, <<94, 94>>, <<96, 96>>, <<168, 168>>, <<173, 173>>,
    <<175, 175>>, <<180, 180>>, <<183, 184>>, <<688, 879>>, <<884, 885>>, <<890, 890>>,
    <<900, 901>>, <<903, 903>>, <<1155, 1161>>, <<1369, 1369>>, <<1375, 1375>>, <<1425, 1469>>,
    <<1471, 1471>>, <<1473, 1474>>, <<1476, 1477>>, <<1479, 1479>>, <<1524, 1524>>,
    <<1536, 1541>>, <<1552, 1562>>, <<1564, 1564>>, <<1600, 1600>>, <<1611, 1631>>,
    <<1648, 1648>>, <<1750, 1757>>, <<1759, 1768>>, <<1770, 1773>>, <<1807, 1807>>,
    <<1809, 1809>>, <<1840, 1866>>, <<1958, 1968>>, <<2027, 2037>>, <<2042, 2042>>,
    <<2045, 2045>>, <<2070, 2093>>, <<2137, 2139>>, <<2184, 2184>>, <<2192, 2193>>,
    <<2200, 2207>>, <<2249, 2306>>, <<2362, 2362>>, <<2364, 2364>>, <<2369, 2376>>,
    <<2381, 2381>>, <<2385, 2391>>, <<2402, 2403>>, <<2417, 2417>>, <<2433, 2433>>,
    <<2492, 2492>>, <<2497, 2500>>, <<2509, 2509>>, <<2530, 2531>>, <<2558, 2558>>,
    <<2561, 2562>>, <<2620, 2620>>, <<2625, 2626>>, <<2631, 2632>>, <<2635, 2637>>,
    <<2641, 2641>>, <<2672, 2673>>, <<2677, 2677>>, <<2689, 2690>>, <<2748, 2748>>,
    <<2753, 2757>>, <<2759, 2760>>, <<2765, 2765>>, <<2786, 2787>>, <<2810, 2815>>,
    <<2817, 2817>>, <<2876, 2876>>, <<2879, 2879>>, <<2881, 2884>>, <<2893, 2893>>,
    <<2901, 2902>>, <<2914, 2915>>, <<2946, 2946>>, <<3008, 3008>>, <<3021, 3021>>,
    <<3072, 3072>>, <<3076, 3076>>, <<3132, 3132>>, <<3134, 3136>>, <<3142, 3144>>,
    <<3146, 3149>>, <<3157, 3158>>, <<3170, 3171>>, <<3201, 3201>>, <<3260, 3260>>,
    <<3263, 3263>>, <<3270, 3270>>, <<3276, 3277>>, <<3298, 3299>>, <<3328, 3329>>,
    <<3387, 3388>>, <<3393, 3396>>, <<3405, 3405>>, <<3426, 3427>>, <<3457, 3457>>,
    <<3530, 3530>>, <<3538, 3540>>, <<3542, 3542>>, <<3633, 3633>>, <<3636, 3642>>,
    <<3654, 3662>>, <<3761, 3761>>, <<3764, 3772>>, <<3782, 3782>>, <<3784, 3789>>,
    <<3864, 3865>>, <<3893, 3893>>, <<3895, 3895>>, <<3897, 3897>>, <<3953, 3966>>,
    <<3968, 3972>>, <<3974, 3975>>, <<3981, 3991>>, <<3993, 4028>>, <<4038, 4038>>,
    <<4141, 4144>>, <<4146, 4151>>, <<4153, 4154>>, <<4157, 4158>>, <<4184, 4185>>,
    <<4190, 4192>>, <<4209, 4212>>, <<4226, 4226>>, <<4229, 4230>>, <<4237, 4237>>,
    <<4253, 4253>>, <<4348, 4348>>, <<4957, 4959>>, <<5906, 5908>>, <<5938, 5939>>,
    <<5970, 5971>>, <<6002, 6003>>, <<6068, 6069>>, <<6071, 6077>>, <<6086, 6086>>,
    <<6089, 6099>>, <<6103, 6103>>, <<6109, 6109>>, <<6155, 6159>>, <<6211, 6211>>,
    <<6277, 6278>>, <<6313, 6313>>, <<6432, 6434>>, <<6439, 6440>>, <<6450, 6450>>,
    <<6457, 6459>>, <<6679, 6680>>, <<6683, 6683>>, <<6742, 6742>>, <<6744, 6750>>,
    <<6752, 6752>>, <<6754, 6754>>, <<6757, 6764>>, <<6771, 6780>>, <<6783, 6783>>,
    <<6823, 6823>>, <<6832, 6862>>, <<6912, 6915>>, <<6964, 6964>>, <<6966, 6970>>,
    <<6972, 6972>>, <<6978, 6978>>, <<7019, 7027>>, <<7040, 7041>>, <<7074, 7077>>,
    <<7080, 7081>>, <<7083, 7085>>, <<7142, 7142>>, <<7144, 7145>>, <<7149, 7149>>,
    <<7151, 7153>>, <<7212, 7219>>, <<7222, 7223>>, <<7288, 7293>>, <<7376, 7378>>,
    <<7380, 7392>>, <<7394, 7400>>, <<7405, 7405>>, <<7412, 7412>>, <<7416, 7417>>,
    <<7468, 7530>>, <<7544, 7544>>, <<7579, 7679>>, <<8125, 8125>>, <<8127, 8129>>,
    <<8141, 8143>>, <<8157, 8159>>, <<8173, 8175>>, <<8189, 8190>>, <<8203, 8207>>,
    <<8216, 8217>>, <<8228, 8228>>, <<8231, 8231>>, <<8234, 8238>>, <<8288, 8292>>,
    <<8294, 8303>>, <<8305, 8305>>, <<8319, 8319>>, <<8336, 8348>>, <<8400, 8432>>,
    <<11388, 11389>>, <<11503, 11505>>, <<11631, 11631>>, <<11647, 11647>>, <<11744, 11775>>,
    <<11823, 11823>>, <<12293, 12293>>, <<12330, 12333>>, <<12337, 12341>>, <<12347, 12347>>,
    <<12441, 12446>>, <<12540, 12542>>, <<40981, 40981>>, <<42232, 42237>>, <<42508, 42508>>,
    <<42607, 42610>>, <<42612, 42621>>, <<42623, 42623>>, <<42652, 42655>>, <<42736, 42737>>,
    <<42752, 42785>>, <<42864, 42864>>, <<42888, 42890>>, <<42994, 42996>>, <<43000, 43001>>,
    <<43010, 43010>>, <<43014, 43014>>, <<43019, 43019>>, <<43045, 43046>>, <<43052, 43052>>,
    <<43204, 43205>>, <<43232, 43249>>, <<43263, 43263>>, <<43302, 43309>>, <<43335, 43345>>,
    <<43392, 43394>>, <<43443, 43443>>, <<43446, 43449>>, <<43452, 43453>>, <<43471, 43471>>,
    <<43493, 43494>>, <<43561, 43566>>, <<43569, 43570>>, <<43573, 43574>>, <<43587, 43587>>,
    <<43596, 43596>>, <<43632, 43632>>, <<43644, 43644>>, <<43696, 43696>>, <<43698, 43700>>,
    <<43703, 43704>>, <<43710, 43711>>, <<43713, 43713>>, <<43741, 43741>>, <<43756, 43757>>,
    <<43763, 43764>>, <<43766, 43766>>, <<43867, 43871>>, <<43881, 43883>>, <<44005, 44005>>,
    <<44008, 44008>>, <<44013, 44013>>, <<64286, 64286>>, <<64434, 64450>>, <<65024, 65039>>,
    <<65043, 65043>>, <<65056, 65071>>, <<65106, 65106>>, <<65109, 65109>>, <<65279, 65279>>,
    <<65287, 65287>>, <<65294, 65294>>, <<65306, 65306>>, <<65342, 65342>>, <<65344, 65344>>,
    <<65392, 65392>>, <<65438, 65439>>, <<65507, 65507>>, <<65529, 65531>>, <<66045, 66045>>,
    <<66272, 66272>>, <<66422, 66426>>, <<67456, 67461>>, <<67463, 67504>>, <<67506, 67514>>,
    <<68097, 68099>>, <<68101, 68102>>, <<68108, 68111>>, <<68152, 68154>>, <<68159, 68159>>,
    <<68325, 68326>>, <<68900, 68903>>, <<69291, 69292>>, <<69446, 69456>>, <<69506, 69509>>,
    <<69633, 69633>>, <<69688, 69702>>, <<69744, 69744>>, <<69747, 69748>>, <<69759, 69761>>,
    <<69811, 69814>>, <<69817, 69818>>, <<69821, 69821>>, <<69826, 69826>>, <<69837, 69837>>,
    <<69888, 69890>>, <<69927, 69931>>, <<69933, 69940>>, <<70003, 70003>>, <<70016, 70017>>,
    <<70070, 70078>>, <<70089, 70092>>, <<70095, 70095>>, <<70191, 70193>>, <<70196, 70196>>,
    <<70198, 70199>>, <<70206, 70206>>, <<70367, 70367>>, <<70371, 70378>>, <<70400, 70401>>,
    <<70459, 70460>>, <<70464, 70464>>, <<70502, 70508>>, <<70512, 70516>>, <<70712, 70719>>,
    <<70722, 70724>>, <<70726, 70726>>, <<70750, 70750>>, <<70835, 70840>>, <<70842, 70842>>,
    <<70847, 70848>>, <<70850, 70851>>, <<71090, 71093>>, <<71100, 71101>>, <<71103, 71104>>,
    <<71132, 71133>>, <<71219, 71226>>, <<71229, 71229>>, <<71231, 71232>>, <<71339, 71339>>,
    <<71341, 71341>>, <<71344, 71349>>, <<71351, 71351>>, <<71453, 71455>>, <<71458, 71461>>,
    <<71463, 71467>>, <<71727, 71735>>, <<71737, 71738>>, <<71995, 71996>>, <<71998, 71998>>,
    <<72003, 72003>>, <<72148, 72151>>, <<72154, 72155>>, <<72160, 72160>>, <<72193, 72202>>,
    <<72243, 72248>>, <<72251, 72254>>, <<72263, 72263>>, <<72273, 72278>>, <<72281, 72283>>,
    <<72330, 72342>>, <<72344, 72345>>, <<72752, 72758>>, <<72760, 72765>>, <<72767, 72767>>,
    <<72850, 72871>>, <<72874, 72880>>, <<72882, 72883>>, <<72885, 72886>>, <<73009, 73014>>,
    <<73018, 73018>>, <<73020, 73021>>, <<73023, 73029>>, <<73031, 73031>>, <<73104, 73105>>,
    <<73109, 73109>>, <<73111, 73111>>, <<73459, 73460>>, <<78896, 78904>>, <<92912, 92916>>,
    <<92976, 92982>>, <<92992, 92995>>, <<94031, 94031>>, <<94095, 94111>>, <<94176, 94177>>,
    <<94179, 94180>>, <<110576, 110579>>, <<110581, 110587>>, <<110589, 110590>>,
    <<113821, 113822>>, <<113824, 113827>>, <<118528, 118573>>, <<118576, 118598>>,
    <<119143, 119145>>, <<119155, 119170>>, <<119173, 119179>>, <<119210, 119213>>,
    <<119362, 119364>>, <<121344, 121398>>, <<121403, 121452>>, <<121461, 121461>>,
    <<121476, 121476>>, <<121499, 121503>>, <<121505, 121519>>, <<122880, 122886>>,
    <<122888, 122904>>, <<122907, 122913>>, <<122915, 122916>>, <<122918, 122922>>,
    <<123184, 123197>>, <<123566, 123566>>, <<123628, 123631>>, <<125136, 125142>>,
    <<125252, 125259>>, <<127995, 127999>>, <<917505, 917505>>, <<917536, 917631>>,
    <<917760, 917999>> }


\* the lower case of the code points that have another one
LowerOf ==
    [c \in UNION {{r[1] + k * r[3] : k \in 0..((r[2] - r[1]) \div r[3])} : r \in LowerRuns} |->
        c + (CHOOSE r \in LowerRuns : c >= r[1] /\ c <= r[2] /\ (c - r[1]) % r[3] = 0)[4]]

\* the one-character lower case of a code point
SimpleLower(c) == IF c \in DOMAIN LowerOf THEN LowerOf[c] ELSE c

\* str.lower() on a str of the one character c: only U+0130 gives two characters
LowerChar(c) == IF c = 304 THEN <<105, 775>> ELSE <<SimpleLower(c)>>

RECURSIVE LetterNext(_, _, _)
\* going from position j by step (1 onwards, -1 backwards) over the case-ignorable
\* characters, a cased letter is found
LetterNext(s, j, step) ==
    IF j < 1 \/ j > Len(s) THEN FALSE
    ELSE IF s[j] \in UNION {r[1]..r[2] : r \in CaseIgnorableRanges}
    THEN LetterNext(s, j + step, step)
    ELSE s[j] \in UNION {r[1]..r[2] : r \in CasedLetterRanges}

\* the lower case of the character at position i of s: a capital sigma (U+03A3) that
\* ends a word becomes the final sigma
LowerAt(s, i) ==
    IF s[i] = 931
    THEN IF LetterNext(s, i - 1, 0 - 1) /\ ~LetterNext(s, i + 1, 1)
         THEN <<962>> ELSE <<963>>
    ELSE LowerChar(s[i])

RECURSIVE LowerFrom(_, _)
LowerFrom(s, i) == IF i > Len(s) THEN << >> ELSE LowerAt(s, i) \o LowerFrom(s, i + 1)

\* str.lower()
StrLower(s) == LowerFrom(s, 1)

\* `term in s` for strings: term occurs as a substring of s
StrIn(term, s) ==
    \E i \in 0..(Len(s) - Len(term)) : SubSeq(s, i + 1, i + Len(term)) = term

\* any(term in s for term in terms), terms a list
AnyIn(terms, s) == \E k \in 1..Len(terms) : StrIn(terms[k], s)

RECURSIVE StrRemove(_, _)
\* s.replace(c, '') for a character c
StrRemove(s, c) ==
    IF Len(s) = 0 THEN << >>
    ELSE (IF s[1] = c THEN << >> ELSE <<s[1]>>) \o StrRemove(Tail(s), c)

RECURSIVE Concats(_, _)
\* the texts made of at most n fragments of the set frags, joined without separator
Concats(frags, n) ==
    IF n = 0 THEN {<< >>}
    ELSE LET shorter == Concats(frags, n - 1)
         IN  shorter \cup {t \o f : t \in shorter, f \in frags}

\* min(S) for a non-empty set of numbers
MinOf(S) == CHOOSE k \in S : \A j \in S : k <= j

(***************************************************************************)
(* Python values that re.findall returns: a str, or a tuple of str.        *)
(***************************************************************************)
PyStr(s) == [kind |-> "str", s |-> s, items |-> << >>]
PyTuple(items) == [kind |-> "tuple", s |-> << >>, items |-> items]

\* len(v)
PyLen(v) == IF v.kind = "str" THEN Len(v.s) ELSE Len(v.items)

\* v[i] with i >= 0: a str of one character, or the i-th item; IndexError outside
PyIndex(v, i) ==
    IF i + 1 > PyLen(v) THEN [exc |-> "IndexError", val |-> << >>]
    ELSE [exc |-> "none",
          val |-> IF v.kind = "str" THEN <<v.s[i + 1]>> ELSE v.items[i + 1]]

(***************************************************************************)
(* Python dicts with string keys, as functions.                            *)
(***************************************************************************)
EmptyDict == [k \in {} |-> 0]
DictPut(d, key, v) == [k \in DOMAIN d \cup {key} |-> IF k = key THEN v ELSE d[k]]

(***************************************************************************)
(* The regular expressions of the module and re.findall on them.  A        *)
(* pattern is a list of items matched left to right with backtracking, as  *)
(* the re module does:                                                     *)
(*   lit   a literal string                                                *)
(*   rep   a greedy repetition cs{lo,hi} of a character class (no upper    *)
(*         limit when inf)                                                 *)
(*   alt   an alternation of literals tried in order, captured as group g  *)
(*         when g > 0, the whole of it optional when opt                   *)
(*   open, close   the parentheses of capturing group g                    *)
(*   wordb the word boundary \b                                            *)
(***************************************************************************)
Item(t, s, cs, lo, hi, inf, alts, opt, g) ==
    [t |-> t, s |-> s, cs |-> cs, lo |-> lo, hi |-> hi, inf |-> inf,
     alts |-> alts, opt |-> opt, g |-> g]

Lit(s)              == Item("lit", s, {}, 0, 0, FALSE, << >>, FALSE, 0)
Between(cs, lo, hi) == Item("rep", << >>, cs, lo, hi, FALSE, << >>, FALSE, 0)
Exactly(cs, n)      == Between(cs, n, n)
Quest(cs)           == Between(cs, 0, 1)
Plus(cs)            == Item("rep", << >>, cs, 1, 0, TRUE, << >>, FALSE, 0)
Star(cs)            == Item("rep", << >>, cs, 0, 0, TRUE, << >>, FALSE, 0)
Alt(alts)           == Item("alt", << >>, {}, 0, 0, FALSE, alts, FALSE, 0)
OptGroupAlt(g, alts) == Item("alt", << >>, {}, 0, 0, FALSE, alts, TRUE, g)
Open(g)             == Item("open", << >>, {}, 0, 0, FALSE, << >>, FALSE, g)
Close(g)            == Item("close", << >>, {}, 0, 0, FALSE, << >>, FALSE, g)
WordB               == Item("wordb", << >>, {}, 0, 0, FALSE, << >>, FALSE, 0)

\* [0-9]
Digit == 48..57
\* \d
DecimalDigit == UNION {r[1]..r[2] : r \in DecimalRanges}
\* \s
Space == UNION {r[1]..r[2] : r \in SpaceRanges}
\* \w
WordChar == UNION {r[1]..r[2] : r \in WordRanges}

\* what the re module calls cased
Cased == UNION {r[1]..r[2] : r \in CasedRanges}

\* the literal character p of a pattern compiled with re.IGNORECASE matches the
\* character c: an uncased p matches itself only; a cased p matches the characters
\* whose lower case is its own or is paired with it in ExtraCases
IgnoreCaseEq(p, c) ==
    \/ c = p
    \/ /\ p \in Cased
       /\ \/ SimpleLower(c) = SimpleLower(p)
          \/ <<SimpleLower(p), SimpleLower(c)>> \in ExtraCases

\* the literal s stands in txt at position pos (1-based); ic is re.IGNORECASE
LitAt(txt, pos, s, ic) ==
    /\ pos + Len(s) - 1 <= Len(txt)
    /\ \A j \in 1..Len(s) :
          IF ic THEN IgnoreCaseEq(Char(s, j), Char(txt, pos + j - 1))
          ELSE Char(txt, pos + j - 1) = Char(s, j)

IsWordAt(txt, pos) == pos >= 1 /\ pos <= Len(txt) /\ Char(txt, pos) \in WordChar

\* \b between the characters at pos - 1 and pos
BoundaryAt(txt, pos) == IsWordAt(txt, pos - 1) # IsWordAt(txt, pos)

RECURSIVE RunLen(_, _, _)
\* the number of consecutive characters of class cs from position pos on
RunLen(txt, pos, cs) ==
    IF pos <= Len(txt) /\ Char(txt, pos) \in cs THEN 1 + RunLen(txt, pos + 1, cs) ELSE 0

NoMatch == [ok |-> FALSE, end |-> 0, caps |-> << >>]
NoGroup == [from |-> 0, to |-> 0]

RECURSIVE MatchFrom(_, _, _, _, _, _)
RECURSIVE TryRep(_, _, _, _, _, _, _)
RECURSIVE TryAlt(_, _, _, _, _, _, _)

\* items k.. of pat match txt from position pos on; caps holds the groups so far
MatchFrom(pat, k, txt, pos, caps, ic) ==
    IF k > Len(pat) THEN [ok |-> TRUE, end |-> pos, caps |-> caps]
    ELSE LET it == pat[k]
         IN  CASE it.t = "lit" ->
                    IF LitAt(txt, pos, it.s, ic)
                    THEN MatchFrom(pat, k + 1, txt, pos + Len(it.s), caps, ic)
                    ELSE NoMatch
               [] it.t = "rep" ->
                    LET run == RunLen(txt, pos, it.cs)
                        most == IF it.inf \/ run <= it.hi THEN run ELSE it.hi
                    IN  TryRep(pat, k, txt, pos, caps, ic, most)
               [] it.t = "alt" -> TryAlt(pat, k, txt, pos, caps, ic, 1)
               [] it.t = "open" ->
                    MatchFrom(pat, k + 1, txt, pos,
                              [caps EXCEPT ![it.g] = [from |-> pos, to |-> pos]], ic)
               [] it.t = "close" ->
                    MatchFrom(pat, k + 1, txt, pos,
                              [caps EXCEPT ![it.g].to = pos], ic)
               [] it.t = "wordb" ->
                    IF BoundaryAt(txt, pos)
                    THEN MatchFrom(pat, k + 1, txt, pos, caps, ic)
                    ELSE NoMatch

\* the greedy repetition pat[k] taken n times, then fewer when the rest fails
TryRep(pat, k, txt, pos, caps, ic, n) ==
    IF n < pat[k].lo THEN NoMatch
    ELSE LET r == MatchFrom(pat, k + 1, txt, pos + n, caps, ic)
         IN  IF r.ok THEN r ELSE TryRep(pat, k, txt, pos, caps, ic, n - 1)

\* the alternatives j.. of pat[k] in order, then (when optional) none of them
TryAlt(pat, k, txt, pos, caps, ic, j) ==
    LET it == pat[k]
    IN  IF j > Len(it.alts)
        THEN IF it.opt THEN MatchFrom(pat, k + 1, txt, pos, caps, ic) ELSE NoMatch
        ELSE LET a == it.alts[j]
                 taken == IF it.g > 0
                          THEN [caps EXCEPT ![it.g] = [from |-> pos, to |-> pos + Len(a)]]
                          ELSE caps
                 r == IF LitAt(txt, pos, a, ic)
                      THEN MatchFrom(pat, k + 1, txt, pos + Len(a), taken, ic)
                      ELSE NoMatch
             IN  IF r.ok THEN r ELSE TryAlt(pat, k, txt, pos, caps, ic, j + 1)

\* the number of capturing groups of a pattern
NGroups(pat) ==
    Cardinality({k \in 1..Len(pat) : pat[k].t = "open" \/ (pat[k].t = "alt" /\ pat[k].g > 0)})

\* the text of group c ('' for a group that took no part in the match)
GroupText(txt, c) == IF c.from = 0 THEN << >> ELSE SubSeq(txt, c.from, c.to - 1)

\* what re.findall lists for one match: the match, its group, or the tuple of its groups
FindAllItem(n, txt, pos, r) ==
    IF n = 0 THEN PyStr(SubSeq(txt, pos, r.end - 1))
    ELSE IF n = 1 THEN PyStr(GroupText(txt, r.caps[1]))
    ELSE PyTuple([g \in 1..n |-> GroupText(txt, r.caps[g])])

\* a match of pat can start at pos only if its first item can: the first character
\* of a literal stands there, or the word boundary is there
CanStartAt(it, txt, pos, ic) ==
    CASE it.t = "lit" /\ Len(it.s) > 0 -> LitAt(txt, pos, <<Char(it.s, 1)>>, ic)
      [] it.t = "wordb" -> BoundaryAt(txt, pos)
      [] OTHER -> TRUE

RECURSIVE FindAllFrom(_, _, _, _, _, _, _)
\* the non-overlapping matches of pat in txt, leftmost first, scanning from pos on
\* over the positions starts where a match can start; n is the number of groups of
\* pat and caps0 has them all unset
FindAllFrom(pat, n, caps0, txt, starts, pos, ic) ==
    LET later == {p \in starts : p >= pos}
    IN  IF later = {} THEN << >>
        ELSE LET p == MinOf(later)
                 r == MatchFrom(pat, 1, txt, p, caps0, ic)
             IN  IF r.ok
                 THEN <<FindAllItem(n, txt, p, r)>>
                      \o FindAllFrom(pat, n, caps0, txt, starts,
                                     IF r.end > p THEN r.end ELSE p + 1, ic)
                 ELSE FindAllFrom(pat, n, caps0, txt, starts, p + 1, ic)

\* re.findall(pat, txt, flags)
FindAll(pat, txt, ic) ==
    FindAllFrom(pat, NGroups(pat), [g \in 1..NGroups(pat) |-> NoGroup], txt,
                {p \in 1..(Len(txt) + 1) : CanStartAt(pat[1], txt, p, ic)}, 1, ic)

(***************************************************************************)
(* Numbers.  A float is the IEEE 754 double sign * m * 2^e with m odd      *)
(* (zero: m = 0, e = 0), and every operation rounds its exact result to    *)
(* the nearest double, ties to the even one, as the machine does.  m has   *)
(* 53 bits where TLC integers have 32, so a natural number is written as   *)
(* the sequence of its digits in base 2^15, the lowest first, 0 being the  *)
(* empty sequence.  The doubles have the exponent range of the format: a   *)
(* finite double is below 2^1024 and a multiple of 2^-1074, so a result of *)
(* 2^1024 or more after rounding is an infinity, and a result below        *)
(* 2^-1022 is rounded to a multiple of 2^-1074 (a subnormal number or      *)
(* zero).  The exponent 1024 is kept for the values that are no numbers:   *)
(* the infinities are written sign * 1 * 2^1024 and NaN 3 * 2^1024.        *)
(***************************************************************************)
Abs(x) == IF x < 0 THEN 0 - x ELSE x

\* the base of the digits
Limb == 2^15

RECURSIVE BigOfInt(_)
\* the natural number n
BigOfInt(n) == IF n = 0 THEN << >> ELSE <<n % Limb>> \o BigOfInt(n \div Limb)

RECURSIVE BigTrim(_)
\* x without leading zero digits
BigTrim(x) ==
    IF Len(x) > 0 /\ x[Len(x)] = 0 THEN BigTrim(SubSeq(x, 1, Len(x) - 1)) ELSE x

RECURSIVE BigMulSmall(_, _, _)
\* x * k + c for k, c < 2^15
BigMulSmall(x, k, c) ==
    IF Len(x) = 0 THEN BigOfInt(c)
    ELSE <<(x[1] * k + c) % Limb>> \o BigMulSmall(Tail(x), k, (x[1] * k + c) \div Limb)

RECURSIVE BigAdd(_, _, _)
\* x + y + c for a carry c of 0 or 1
BigAdd(x, y, c) ==
    IF Len(x) = 0 /\ Len(y) = 0 THEN BigOfInt(c)
    ELSE LET t == (IF Len(x) = 0 THEN 0 ELSE x[1]) + (IF Len(y) = 0 THEN 0 ELSE y[1]) + c
         IN  <<t % Limb>> \o BigAdd(IF Len(x) = 0 THEN x ELSE Tail(x),
                                    IF Len(y) = 0 THEN y ELSE Tail(y), t \div Limb)

RECURSIVE BigLess(_, _)
\* x < y
BigLess(x, y) ==
    IF Len(x) # Len(y) THEN Len(x) < Len(y)
    ELSE IF Len(x) = 0 THEN FALSE
    ELSE IF x[Len(x)] # y[Len(y)] THEN x[Len(x)] < y[Len(y)]
    ELSE BigLess(BigTrim(SubSeq(x, 1, Len(x) - 1)), BigTrim(SubSeq(y, 1, Len(y) - 1)))

RECURSIVE BigSubDigits(_, _, _)
\* the digits of x - y - c for x >= y + c and a borrow c of 0 or 1, leading zeros kept
BigSubDigits(x, y, c) ==
    IF Len(x) = 0 THEN << >>
    ELSE LET t == x[1] - (IF Len(y) = 0 THEN 0 ELSE y[1]) - c
         IN  <<(t + Limb) % Limb>> \o BigSubDigits(Tail(x), IF Len(y) = 0 THEN y ELSE Tail(y),
                                                   IF t < 0 THEN 1 ELSE 0)

RECURSIVE BigMul(_, _)
\* x * y
BigMul(x, y) ==
    IF Len(x) = 0 \/ Len(y) = 0 THEN << >>
    ELSE BigTrim(BigAdd(BigMulSmall(x, y[1], 0), <<0>> \o BigMul(x, Tail(y)), 0))

RECURSIVE BitsOf(_)
\* the number of bits of the natural number n
BitsOf(n) == IF n = 0 THEN 0 ELSE 1 + BitsOf(n \div 2)

BigBits(x) == IF Len(x) = 0 THEN 0 ELSE 15 * (Len(x) - 1) + BitsOf(x[Len(x)])

RECURSIVE BigDivSmallDigits(_, _)
BigDivSmallDigits(x, k) ==
    IF Len(x) = 0 THEN [q |-> << >>, r |-> 0]
    ELSE LET high == BigDivSmallDigits(Tail(x), k)
             t == high.r * Limb + x[1]
         IN  [q |-> <<t \div k>> \o high.q, r |-> t % k]

\* quotient and remainder of x by k, 0 < k < 2^15
BigDivSmall(x, k) ==
    LET d == BigDivSmallDigits(x, k) IN [q |-> BigTrim(d.q), r |-> BigOfInt(d.r)]

RECURSIVE QuotientDigit(_, _, _, _)
\* the greatest digit k with y * k <= r, for r < y * 2^15: k is digit plus what the
\* bits from bit down add to it
QuotientDigit(r, y, bit, digit) ==
    IF bit < 0 THEN digit
    ELSE IF BigLess(r, BigMulSmall(y, digit + 2^bit, 0))
    THEN QuotientDigit(r, y, bit - 1, digit)
    ELSE QuotientDigit(r, y, bit - 1, digit + 2^bit)

RECURSIVE BigDivDigits(_, _)
\* quotient (with leading zeros) and remainder of x by y, by long division
BigDivDigits(x, y) ==
    IF Len(x) = 0 THEN [q |-> << >>, r |-> << >>]
    ELSE LET high == BigDivDigits(Tail(x), y)
             r == BigTrim(<<x[1]>> \o high.r)
         IN  CHOOSE qr \in {[q |-> <<k>> \o high.q,
                              r |-> BigTrim(BigSubDigits(r, BigMulSmall(y, k, 0), 0))] :
                               k \in {QuotientDigit(r, y, 14, 0)}} : TRUE

\* quotient and remainder of x by y # 0
BigDivMod(x, y) ==
    IF Len(y) = 1 THEN BigDivSmall(x, y[1])
    ELSE [q |-> BigTrim(BigDivDigits(x, y).q), r |-> BigDivDigits(x, y).r]

RECURSIVE BigShl(_, _)
\* x * 2^k
BigShl(x, k) ==
    IF Len(x) = 0 \/ k = 0 THEN x
    ELSE IF k >= 15 THEN <<0>> \o BigShl(x, k - 15)
    ELSE BigMulSmall(x, 2^k, 0)

RECURSIVE BigShr(_, _)
\* x \div 2^k, and whether a one was among the bits dropped
BigShr(x, k) ==
    IF k = 0 \/ Len(x) = 0 THEN [q |-> x, lost |-> FALSE]
    ELSE IF k >= 15
         THEN LET rest == BigShr(Tail(x), k - 15)
              IN  [q |-> rest.q, lost |-> rest.lost \/ x[1] # 0]
    ELSE LET d == BigDivSmall(x, 2^k) IN [q |-> d.q, lost |-> Len(d.r) > 0]

RECURSIVE BigPow10(_)
\* 10^k, as the product of the powers of the two halves of k
BigPow10(k) ==
    IF k = 0 THEN <<1>>
    ELSE IF k = 1 THEN <<10>>
    ELSE BigMul(BigPow10(k \div 2), BigPow10(k - k \div 2))

\* float('inf') for sign 1 and float('-inf') for sign -1
Inf(sign) == [sign |-> sign, m |-> <<1>>, e |-> 1024]

\* float('nan')
NaN == [sign |-> 1, m |-> <<3>>, e |-> 1024]

RECURSIVE Normal(_, _, _)
\* the float sign * m * 2^e, m of at most 53 bits and e >= -1074, with its mantissa
\* made odd: a zero with its sign for m = 0, an infinity from 2^1024 on
Normal(sign, m, e) ==
    IF Len(m) = 0 THEN [sign |-> sign, m |-> << >>, e |-> 0]
    ELSE IF m[1] = 0 THEN Normal(sign, Tail(m), e + 15)
    ELSE IF m[1] % 2 = 0 THEN Normal(sign, BigDivSmall(m, 2).q, e + 1)
    ELSE IF BigBits(m) + e > 1024 THEN Inf(sign)
    ELSE [sign |-> sign, m |-> m, e |-> e]

\* the float sign * m * 2^e for cut.q the bits of m that are kept, the last of them
\* the half that decides the rounding, and lost telling whether a one was dropped after
\* them: round to the nearest, a tie to the even one
RoundCut(sign, cut, lost, e) ==
    Normal(sign,
           IF /\ Len(cut.q) > 0
              /\ cut.q[1] % 2 = 1
              /\ (cut.lost \/ lost \/ (cut.q[1] \div 2) % 2 = 1)
           THEN BigAdd(BigDivSmall(cut.q, 2).q, << >>, 1)
           ELSE BigDivSmall(cut.q, 2).q,
           e + 1)

\* the same for a quotient qr.q of 55 bits or more with its remainder qr.r: 53 bits and
\* the half are kept, or fewer where the 53rd bit would be below 2^-1074
RoundQuotient(sign, qr, e) ==
    IF e + BigBits(qr.q) - 54 >= 0 - 1075
    THEN RoundCut(sign, BigShr(qr.q, BigBits(qr.q) - 54), Len(qr.r) > 0,
                  e + BigBits(qr.q) - 54)
    ELSE RoundCut(sign, BigShr(qr.q, 0 - 1075 - e), Len(qr.r) > 0, 0 - 1075)

\* the double nearest to sign * (n / d) * 2^e, round-half-even: n is shifted up so that
\* the quotient has 55 bits or more
RoundToDouble(sign, n, d, e) ==
    IF Len(n) = 0 THEN [sign |-> sign, m |-> << >>, e |-> 0]
    ELSE IF d = <<1>> /\ BigBits(n) <= 53 /\ e >= 0 - 1074 THEN Normal(sign, n, e)
    ELSE RoundQuotient(sign, BigDivMod(BigShl(n, 55 + BigBits(d)), d),
                       e - 55 - BigBits(d))

\* the float nearest to the decimal m * 10^e, m a natural number: 1234500000.0 is
\* Dec(12345, 5) and 3.21 is Dec(321, -2)
Dec(m, e) ==
    IF e >= 0 THEN RoundToDouble(1, BigMul(BigOfInt(m), BigPow10(e)), <<1>>, 0)
    ELSE RoundToDouble(1, BigOfInt(m), BigPow10(0 - e), 0)

\* the integer x as a float: exact, x having less than 53 bits
Num(x) ==
    IF x = 0 THEN [sign |-> 1, m |-> << >>, e |-> 0]
    ELSE Normal(IF x < 0 THEN 0 - 1 ELSE 1, BigOfInt(Abs(x)), 0)

\* a * b: NaN for a NaN and for an infinity times zero
PyMul(a, b) ==
    IF a = NaN \/ b = NaN THEN NaN
    ELSE IF a.e = 1024 \/ b.e = 1024
    THEN IF Len(a.m) = 0 \/ Len(b.m) = 0 THEN NaN ELSE Inf(a.sign * b.sign)
    ELSE RoundToDouble(a.sign * b.sign, BigMul(a.m, b.m), <<1>>, a.e + b.e)

\* a / b: ZeroDivisionError when b is zero; NaN for a NaN and for an infinity by an
\* infinity, a zero for a number by an infinity
PyDiv(a, b) ==
    IF Len(b.m) = 0 THEN [exc |-> "ZeroDivisionError", val |-> Num(0)]
    ELSE [exc |-> "none",
          val |-> IF a = NaN \/ b = NaN \/ (a.e = 1024 /\ b.e = 1024) THEN NaN
                  ELSE IF a.e = 1024 THEN Inf(a.sign * b.sign)
                  ELSE IF b.e = 1024 THEN [sign |-> a.sign * b.sign, m |-> << >>, e |-> 0]
                  ELSE RoundToDouble(a.sign * b.sign, a.m, b.m, a.e - b.e)]

\* a - b: both brought to the lower exponent, then subtracted exactly and rounded; NaN
\* for a NaN and for an infinity minus itself.  A zero leaves the other number as it
\* is (0.0 - 0.0 is 0.0, -0.0 - 0.0 is -0.0), and a number below an eighth of the last
\* of the 53 bits of the other one leaves that one as the nearest double.
PySub(a, b) ==
    LET low == IF a.e < b.e THEN a.e ELSE b.e
        x == BigShl(a.m, a.e - low)
        y == BigShl(b.m, b.e - low)
    IN  IF a = NaN \/ b = NaN \/ (a.e = 1024 /\ a = b) THEN NaN
        ELSE IF a.e = 1024 THEN a
        ELSE IF b.e = 1024 THEN Inf(0 - b.sign)
        ELSE IF Len(a.m) = 0 \/ Len(b.m) = 0
        THEN IF Len(b.m) > 0 THEN [sign |-> 0 - b.sign, m |-> b.m, e |-> b.e]
             ELSE IF Len(a.m) > 0 \/ a.sign # b.sign THEN a
             ELSE Num(0)
        ELSE IF BigBits(b.m) + b.e < BigBits(a.m) + a.e - 55 THEN a
        ELSE IF BigBits(a.m) + a.e < BigBits(b.m) + b.e - 55
        THEN [sign |-> 0 - b.sign, m |-> b.m, e |-> b.e]
        ELSE IF a.sign # b.sign
        THEN RoundToDouble(a.sign, BigTrim(BigAdd(x, y, 0)), <<1>>, low)
        ELSE IF BigLess(x, y)
        THEN RoundToDouble(0 - a.sign, BigTrim(BigSubDigits(y, x, 0)), <<1>>, low)
        ELSE IF x = y THEN Num(0)
        ELSE RoundToDouble(a.sign, BigTrim(BigSubDigits(x, y, 0)), <<1>>, low)

\* v * 10^p, the int 10^p being a float without rounding
TimesPow10(v, p) == PyMul(v, Num(10^p))

RECURSIVE DigitsToInt(_)
\* the natural number that a str of digits writes: what its first half writes, times
\* the power of ten of the length of the second half, plus what that half writes
DigitsToInt(s) ==
    IF Len(s) = 0 THEN << >>
    ELSE IF Len(s) = 1 THEN BigOfInt(Char(s, 1) - 48)
    ELSE BigAdd(BigMul(DigitsToInt(SubSeq(s, 1, Len(s) \div 2)),
                       BigPow10(Len(s) - Len(s) \div 2)),
                DigitsToInt(SubSeq(s, Len(s) \div 2 + 1, Len(s))), 0)

\* float(s) for a str of ASCII digits and dots, all that the patterns can capture:
\* ValueError unless s is digits with at most one dot and at least one digit
PyFloat(s) ==
    LET dots == {i \in 1..Len(s) : Char(s, i) = 46}
        valid == /\ \A i \in 1..Len(s) : Char(s, i) \in Digit \cup {46}
                 /\ Cardinality(dots) <= 1
                 /\ \E i \in 1..Len(s) : Char(s, i) \in Digit
        frac == IF dots = {} THEN 0 ELSE Len(s) - (CHOOSE i \in dots : TRUE)
    IN  IF valid
        THEN [exc |-> "none",
              val |-> RoundToDouble(1, DigitsToInt(StrRemove(s, 46)), BigPow10(frac), 0)]
        ELSE [exc |-> "ValueError", val |-> Num(0)]

(***************************************************************************)
(* identify_document_type                                                   *)
(***************************************************************************)
\* the keyword lists and labels of the if/elif chain, in its order
DocTypeRules == <<
    [terms |-> <<Str("10-k"), Str("annual report"), Str("form 10-k")>>,
     label |-> "Annual Report (10-K)"],
    [terms |-> <<Str("10-q"), Str("quarterly report"), Str("form 10-q")>>,
     label |-> "Quarterly Report (10-Q)"],
    [terms |-> <<Str("earnings call"), Str("earnings transcript"),
                 Str("quarterly earnings")>>,
     label |-> "Earnings Call Transcript"],
    [terms |-> <<Str("research report"), Str("analyst report"),
                 Str("investment research")>>,
     label |-> "Research Report"],
    [terms |-> <<Str("prospectus"), Str("offering memorandum")>>,
     label |-> "Investment Prospectus"],
    [terms |-> <<Str("balance sheet"), Str("income statement"), Str("cash flow")>>,
     label |-> "Financial Statement"] >>

\* a default branch that hands back a label outside the fixed set
UnknownDocType == "Unknown"

DefaultDocType == "Financial Document"

RECURSIVE FirstRuleFrom(_, _)
\* the if/elif chain from branch k on
FirstRuleFrom(text_lower, k) ==
    IF k > Len(DocTypeRules) THEN DefaultDocType
    ELSE IF AnyIn(DocTypeRules[k].terms, text_lower) THEN DocTypeRules[k].label
    ELSE FirstRuleFrom(text_lower, k + 1)

\* the chain run on the text as given, without lower-casing it
identify_document_type_as_given(t) == FirstRuleFrom(t, 1)

identify_document_type(t) ==
    CHOOSE label \in {FirstRuleFrom(text_lower, 1) : text_lower \in {StrLower(t)}} : TRUE

\* the pieces of the texts tried; <<8490>> is the Kelvin sign, whose lower case is "k",
\* and <<304>> the capital I with a dot, whose lower case is an "i" and a combining dot
ClassifyFragments ==
    {Str("10-K"), Str("10-"), Str("q"), Str("Annual Report"), Str("quarterly "),
     Str("earnings call"), Str("Research Report"), Str("Prospectus"),
     Str("balance sheet"), Str(" "), <<8490>>, Str("PROSPECTUS OFFER") \o <<304>>}

ClassifyTexts == Concats(ClassifyFragments, MaxClassifyFragments)

InitClassify ==
    /\ pc = "call"
    /\ text \in ClassifyTexts
    /\ metrics = EmptyDict
    /\ analysis = EmptyDict
    /\ doc_type = ""
    /\ dates = << >>
    /\ ratios = EmptyDict
    /\ summary = << >>
    /\ raised = "none"
    /\ PdfIdle

IdentifyDocumentType ==
    /\ pc = "call"
    /\ doc_type' = identify_document_type(text)
    /\ pc' = "return"
    /\ UNCHANGED <<text, metrics, analysis, dates, ratios, summary, raised, pdfvars>>

NextClassify == IdentifyDocumentType

SpecClassify == InitClassify /\ [][NextClassify]_vars

\* the keyword groups and labels as the specification numbers them
GroupTerms == <<
    {Str("10-k"), Str("annual report"), Str("form 10-k")},
    {Str("10-q"), Str("quarterly report"), Str("form 10-q")},
    {Str("earnings call"), Str("earnings transcript"), Str("quarterly earnings")},
    {Str("research report"), Str("analyst report"), Str("investment research")},
    {Str("prospectus"), Str("offering memorandum")},
    {Str("balance sheet"), Str("income statement"), Str("cash flow")} >>

GroupLabel == <<
    "Annual Report (10-K)", "Quarterly Report (10-Q)", "Earnings Call Transcript",
    "Research Report", "Investment Prospectus", "Financial Statement" >>

\* the groups with a keyword occurring in the (lower-cased) text low
HitGroups(low) ==
    {k \in 1..Len(GroupTerms) : \E term \in GroupTerms[k] : StrIn(term, low)}

\* C1: the returned label is the label of the lowest-numbered keyword group with a
\* keyword occurring in the lower-cased text, whatever the position or number of the
\* matches; a text containing "10-k" in any letter case is an Annual Report (10-K).
C1_PriorityDecides ==
    pc = "return" =>
        \A hits \in {HitGroups(StrLower(text))} :
            /\ hits # {} => doc_type = GroupLabel[MinOf(hits)]
            /\ StrIn(Str("10-k"), StrLower(text)) => doc_type = "Annual Report (10-K)"

\* an upper-case "10-K" after a keyword of the last group: the first group decides
C1_Witness ==
    /\ pc = "return"
    /\ text = Str("balance sheet 10-K")
    /\ doc_type = "Annual Report (10-K)"

\* C8: identify_document_type returns for every text, the empty one included, never
\* raises, returns one of the seven labels, and returns the generic label when no
\* keyword of any group occurs in the lower-cased text.
C8_TotalClassifier ==
    /\ pc = "call" => ENABLED IdentifyDocumentType
    /\ pc # "call" =>
          /\ pc = "return" /\ raised = "none"
          /\ doc_type \in {GroupLabel[k] : k \in 1..Len(GroupLabel)} \cup {"Financial Document"}
          /\ HitGroups(StrLower(text)) = {} => doc_type = "Financial Document"

\* the empty text is classified as the generic document
C8_Witness ==
    /\ pc = "return"
    /\ text = << >>
    /\ doc_type = "Financial Document"

(***************************************************************************)
(* extract_financial_metrics                                               *)
(***************************************************************************)
\* label[:\s]+\$?([0-9,]+\.?[0-9]*)\s*(million|billion|M|B)?
AmountPattern(label) == <<
    Lit(Str(label)), Plus({Ord[":"]} \cup Space), Quest({Ord["$"]}),
    Open(1), Plus(Digit \cup {Ord[","]}), Quest({Ord["."]}), Star(Digit), Close(1),
    Star(Space), OptGroupAlt(2, <<Str("million"), Str("billion"), Str("M"), Str("B")>>) >>

\* label[:\s]+\$?([0-9]+\.?[0-9]*)
PerSharePattern(label) == <<
    Lit(Str(label)), Plus({Ord[":"]} \cup Space), Quest({Ord["$"]}),
    Open(1), Plus(Digit), Quest({Ord["."]}), Star(Digit), Close(1) >>

revenue_patterns ==
    <<AmountPattern("revenue"), AmountPattern("sales"), AmountPattern("total revenue")>>

eps_patterns ==
    <<PerSharePattern("earnings per share"), PerSharePattern("EPS"),
      PerSharePattern("diluted EPS")>>

income_patterns ==
    <<AmountPattern("net income"), AmountPattern("net earnings")>>

\* the powers of ten of `value *= 1000000000` and `value *= 1000000`
BillionPow == 9
MillionPow == 6

\* `if unit.lower() in ['billion', 'b']: ... elif unit.lower() in ['million', 'm']: ...`
\* on the outcome of float(...)
ScaleByUnit(value, unit) ==
    IF value.exc # "none" THEN value
    ELSE IF StrLower(unit) \in {Str("billion"), Str("b")}
         THEN [exc |-> "none", val |-> TimesPow10(value.val, BillionPow)]
    ELSE IF StrLower(unit) \in {Str("million"), Str("m")}
         THEN [exc |-> "none", val |-> TimesPow10(value.val, MillionPow)]
    ELSE value

\* the body of the try block: the value of the first match, or the exception
TryBody(matches) ==
    IF PyIndex(matches[1], 0).exc # "none"
    THEN [exc |-> PyIndex(matches[1], 0).exc, val |-> Num(0)]
    ELSE ScaleByUnit(PyFloat(StrRemove(PyIndex(matches[1], 0).val, Ord[","])),
                     IF PyLen(matches[1]) > 1 THEN PyIndex(matches[1], 1).val ELSE << >>)

\* a try block without its except clause
CaughtNothing == {}

\* except (ValueError, IndexError)
Caught == {"ValueError", "IndexError"}

RECURSIVE ExtractValueNoBreak(_, _, _, _, _)
\* the for loop without its break: every later pattern that parses overwrites the key
ExtractValueNoBreak(pattern_list, k, txt, metric_name, d) ==
    IF k > Len(pattern_list) THEN [exc |-> "none", metrics |-> d]
    ELSE LET matches == FindAll(pattern_list[k], txt, TRUE)
             body == TryBody(matches)
         IN  IF Len(matches) > 0 /\ body.exc = "none"
             THEN ExtractValueNoBreak(pattern_list, k + 1, txt, metric_name,
                                      DictPut(d, metric_name, body.val))
             ELSE ExtractValueNoBreak(pattern_list, k + 1, txt, metric_name, d)

RECURSIVE ExtractValueFrom(_, _, _, _, _)
\* the for loop of extract_value from pattern k on; d is the metrics dict so far
ExtractValueFrom(pattern_list, k, txt, metric_name, d) ==
    IF k > Len(pattern_list) THEN [exc |-> "none", metrics |-> d]
    ELSE CHOOSE out \in
            {IF Len(matches) = 0
             THEN ExtractValueFrom(pattern_list, k + 1, txt, metric_name, d)
             ELSE CHOOSE r \in
                     {IF body.exc = "none"
                      THEN [exc |-> "none", metrics |-> DictPut(d, metric_name, body.val)]
                      ELSE IF body.exc \in Caught
                      THEN ExtractValueFrom(pattern_list, k + 1, txt, metric_name, d)
                      ELSE [exc |-> body.exc, metrics |-> d] :
                         body \in {TryBody(matches)}} : TRUE :
                matches \in {FindAll(pattern_list[k], txt, TRUE)}} : TRUE

\* extract_value(pattern_list, metric_name), called after the calls with the outcome r
extract_value(pattern_list, txt, metric_name, r) ==
    IF r.exc # "none" THEN r
    ELSE ExtractValueFrom(pattern_list, 1, txt, metric_name, r.metrics)

\* the function with metrics initialised to a zero for every family
extract_financial_metrics_placeholders(txt) ==
    extract_value(income_patterns, txt, "net_income",
        extract_value(eps_patterns, txt, "eps",
            extract_value(revenue_patterns, txt, "revenue",
                [exc |-> "none",
                 metrics |-> [f \in {"revenue", "eps", "net_income"} |-> Num(0)]])))

\* metrics = {}, the three calls of extract_value, return metrics
extract_financial_metrics(txt) ==
    extract_value(income_patterns, txt, "net_income",
        extract_value(eps_patterns, txt, "eps",
            extract_value(revenue_patterns, txt, "revenue",
                [exc |-> "none", metrics |-> EmptyDict])))

\* the pieces of the texts tried; <<160>> is the no-break space, <<383>> the long s,
\* which "s" matches when case is ignored, and <<304>> the capital I with a dot, which
\* "i" matches when case is ignored and whose lower case is an "i" and a combining dot
MetricFragments ==
    {Str("Total revenue: $1,234.5 million"), Str(" and EPS: $3.21"), Str("revenue: ,"),
     Str("sales: 7b"), Str("net income: 2,000"), Str("Net Earnings 12.5 Billion"),
     Str("earnings per share: 0.45"), Str(" more"),
     <<383>> \o Str("ales:") \o <<160>> \o Str("$4.1 M"),
     Str("net income: 8.3 B") \o <<304>> \o Str("LLION")}

MetricTexts == Concats(MetricFragments, MaxMetricFragments)

InitMetrics ==
    /\ pc = "call"
    /\ text \in MetricTexts
    /\ metrics = EmptyDict
    /\ analysis = EmptyDict
    /\ doc_type = ""
    /\ dates = << >>
    /\ ratios = EmptyDict
    /\ summary = << >>
    /\ raised = "none"
    /\ PdfIdle

ExtractFinancialMetrics ==
    /\ pc = "call"
    /\ \E r \in {extract_financial_metrics(text)} :
          /\ raised' = r.exc
          /\ pc' = IF r.exc = "none" THEN "return" ELSE "raise"
          /\ metrics' = IF r.exc = "none" THEN r.metrics ELSE metrics
    /\ UNCHANGED <<text, analysis, doc_type, dates, ratios, summary, pdfvars>>

NextMetrics == ExtractFinancialMetrics

SpecMetrics == InitMetrics /\ [][NextMetrics]_vars

\* the pattern list of each metric family, under the key it is stored at
Families == [revenue |-> revenue_patterns, eps |-> eps_patterns,
             net_income |-> income_patterns]

\* the matches of every pattern of a family in t
FamilyMatches(pats, t) == [k \in 1..Len(pats) |-> FindAll(pats[k], t, TRUE)]

\* the amount a match captured: group 1
AmountOf(match) == IF match.kind = "tuple" THEN match.items[1] ELSE match.s

\* the magnitude suffix a match captured: group 2, '' without one
SuffixOf(match) == IF match.kind = "tuple" THEN match.items[2] ELSE << >>

\* the captured amount as a number, thousands separators removed
AmountValue(match) == PyFloat(StrRemove(AmountOf(match), Ord[","]))

\* the patterns of a family whose first match is a number
Parsing(ms) == {k \in 1..Len(ms) : Len(ms[k]) > 0 /\ AmountValue(ms[k][1]).exc = "none"}

ExampleText == Str("Total revenue: $1,234.5 million and EPS: $3.21")

\* C2: the example text yields revenue = 1234500000.0 and eps = 3.21 and no net_income;
\* whenever an EPS pattern matches, the stored eps is the whole decimal amount after
\* the EPS label, unscaled.
C2_EpsWholeAmount ==
    pc = "return" =>
        /\ text = ExampleText =>
              metrics = [revenue |-> Dec(12345, 5), eps |-> Dec(321, 0 - 2)]
        /\ \A ms \in {FamilyMatches(eps_patterns, text)} :
              Parsing(ms) # {} =>
                  /\ "eps" \in DOMAIN metrics
                  /\ metrics["eps"] = AmountValue(ms[MinOf(Parsing(ms))][1]).val

\* C5: within a family the pattern order decides, not the position in the text: the
\* stored value comes from the first match of the earliest-listed pattern whose first
\* match parses; later patterns and later matches are ignored; a family with no such
\* pattern has no key, and the result has no key but the three families'.
C5_PatternOrderDecides ==
    pc = "return" =>
        /\ DOMAIN metrics \subseteq DOMAIN Families
        /\ \A f \in DOMAIN Families :
              \A ms \in {FamilyMatches(Families[f], text)} :
                  \A good \in {{k \in 1..Len(ms) :
                                   Len(ms[k]) > 0 /\ TryBody(<<ms[k][1]>>).exc = "none"}} :
                      IF good = {} THEN f \notin DOMAIN metrics
                      ELSE /\ f \in DOMAIN metrics
                           /\ metrics[f] = TryBody(<<ms[MinOf(good)][1]>>).val

\* "sales" stands first in the text, the earlier-listed "revenue" pattern decides
C5_Witness ==
    /\ pc = "return"
    /\ text = Str("sales: 7bTotal revenue: $1,234.5 million")
    /\ metrics = [revenue |-> Dec(12345, 5)]

\* the magnitude suffix that the pattern found after the amount is the word w, in the
\* letter case the pattern takes it in
SuffixIs(w, suffix) == Len(suffix) = Len(w) /\ LitAt(suffix, 1, Str(w), TRUE)

\* the amount a match captured, scaled by the magnitude suffix that follows it
ScaledAmount(match) ==
    LET amount == AmountValue(match).val
        suffix == SuffixOf(match)
    IN  IF SuffixIs("million", suffix) \/ SuffixIs("M", suffix)
        THEN TimesPow10(amount, 6)
        ELSE IF SuffixIs("billion", suffix) \/ SuffixIs("B", suffix)
        THEN TimesPow10(amount, 9)
        ELSE amount

\* C6: a stored revenue or net_income is in absolute units: the matched amount with
\* its thousands separators removed, times 10^6 when the magnitude suffix million/M
\* follows it, times 10^9 when billion/B follows it, and as parsed without a magnitude
\* suffix.
C6_AbsoluteUnits ==
    pc = "return" =>
        \A f \in {"revenue", "net_income"} :
            \A ms \in {FamilyMatches(Families[f], text)} :
                Parsing(ms) # {} =>
                    /\ f \in DOMAIN metrics
                    /\ metrics[f] = ScaledAmount(ms[MinOf(Parsing(ms))][1])

\* C7: a first match that is no number costs only its pattern: extraction never
\* raises, a family has its key exactly when one of its patterns has a first match
\* that parses, whatever happened to the patterns before it and to the other families.
C7_ParseFailureLocal ==
    /\ pc # "raise" /\ raised = "none"
    /\ pc = "return" =>
          \A f \in DOMAIN Families :
              (f \in DOMAIN metrics) <=> (Parsing(FamilyMatches(Families[f], text)) # {})

\* the "revenue" pattern captures a lone comma; "sales" and the EPS family still count
C7_Witness ==
    /\ pc = "return"
    /\ text = Str("revenue: ,sales: 7b and EPS: $3.21")
    /\ AmountValue(FindAll(revenue_patterns[1], text, TRUE)[1]).exc = "ValueError"
    /\ DOMAIN metrics = {"revenue", "eps"}
    /\ metrics["revenue"] = Dec(7, 9)

(***************************************************************************)
(* calculate_financial_ratios                                              *)
(***************************************************************************)
\* `metrics[...] > 0`, the gate on the denominator of each ratio: false for a zero of
\* either sign and for NaN, true for the positive infinity
DenominatorOk(x) == x.sign = 1 /\ Len(x.m) > 0 /\ x # NaN

\* ratios['pe_ratio'] = stock_price / eps, when its if holds
PeRatioStep(m, r) ==
    IF r.exc # "none" THEN r
    ELSE IF "stock_price" \in DOMAIN m /\ "eps" \in DOMAIN m /\ DenominatorOk(m["eps"])
    THEN LET q == PyDiv(m["stock_price"], m["eps"])
         IN  IF q.exc # "none" THEN [exc |-> q.exc, ratios |-> r.ratios]
             ELSE [exc |-> "none", ratios |-> DictPut(r.ratios, "pe_ratio", q.val)]
    ELSE r

\* ratios['revenue_growth'] = ((current - previous) / previous) * 100, when its ifs hold
RevenueGrowthStep(m, r) ==
    IF r.exc # "none" THEN r
    ELSE IF "current_revenue" \in DOMAIN m /\ "previous_revenue" \in DOMAIN m
    THEN IF DenominatorOk(m["previous_revenue"])
         THEN LET q == PyDiv(PySub(m["current_revenue"], m["previous_revenue"]),
                             m["previous_revenue"])
              IN  IF q.exc # "none" THEN [exc |-> q.exc, ratios |-> r.ratios]
                  ELSE [exc |-> "none",
                        ratios |-> DictPut(r.ratios, "revenue_growth", PyMul(q.val, Num(100)))]
         ELSE r
    ELSE r

\* ratios['profit_margin'] = (net_income / revenue) * 100, when its if holds
ProfitMarginStep(m, r) ==
    IF r.exc # "none" THEN r
    ELSE IF "net_income" \in DOMAIN m /\ "revenue" \in DOMAIN m /\ DenominatorOk(m["revenue"])
    THEN LET q == PyDiv(m["net_income"], m["revenue"])
         IN  IF q.exc # "none" THEN [exc |-> q.exc, ratios |-> r.ratios]
             ELSE [exc |-> "none",
                   ratios |-> DictPut(r.ratios, "profit_margin", PyMul(q.val, Num(100)))]
    ELSE r

\* the three ifs turned into one if/elif chain: the first ratio computed ends it
calculate_financial_ratios_elif(m) ==
    LET r0 == [exc |-> "none", ratios |-> EmptyDict]
        r1 == PeRatioStep(m, r0)
        r2 == IF r1 = r0 THEN RevenueGrowthStep(m, r1) ELSE r1
    IN  IF r2 = r0 THEN ProfitMarginStep(m, r2) ELSE r2

calculate_financial_ratios(m) ==
    ProfitMarginStep(m,
        RevenueGrowthStep(m,
            PeRatioStep(m, [exc |-> "none", ratios |-> EmptyDict])))

\* the values tried for the metrics: numerators, and denominators around zero; next
\* to the small numbers a large float (2.0**1000), a small one (2.0**-1000) and the
\* infinity that extract_financial_metrics stores for an amount beyond the floats
NumeratorValues ==
    {Num(0), Num(50), Num(150), [sign |-> 1, m |-> <<1>>, e |-> 1000], Inf(1)}
DenominatorValues ==
    {Num(x) : x \in (0 - 1)..MaxDenominator}
        \cup {[sign |-> 1, m |-> <<1>>, e |-> 0 - 1000], Inf(1)}

\* a metric left out of the dict, or present with one of the values vs
Choices(vs) == {<<FALSE, Num(0)>>} \cup {<<TRUE, v>> : v \in vs}

\* the dict with the keys that the function choice marks present
DictOf(choice) == [k \in {x \in DOMAIN choice : choice[x][1]} |-> choice[k][2]]

RatioInputs ==
    {DictOf(c) : c \in [stock_price : Choices(NumeratorValues),
                        eps : Choices(DenominatorValues),
                        current_revenue : Choices(NumeratorValues),
                        previous_revenue : Choices(DenominatorValues),
                        net_income : Choices(NumeratorValues),
                        revenue : Choices(DenominatorValues)]}

InitRatios ==
    /\ pc = "call"
    /\ text = << >>
    /\ metrics \in RatioInputs
    /\ analysis = EmptyDict
    /\ doc_type = ""
    /\ dates = << >>
    /\ ratios = EmptyDict
    /\ summary = << >>
    /\ raised = "none"
    /\ PdfIdle

CalculateFinancialRatios ==
    /\ pc = "call"
    /\ \E r \in {calculate_financial_ratios(metrics)} :
          /\ raised' = r.exc
          /\ pc' = IF r.exc = "none" THEN "return" ELSE "raise"
          /\ ratios' = IF r.exc = "none" THEN r.ratios ELSE ratios
    /\ UNCHANGED <<text, metrics, analysis, doc_type, dates, summary, pdfvars>>

NextRatios == CalculateFinancialRatios

SpecRatios == InitRatios /\ [][NextRatios]_vars

\* each ratio with the metric it divides and the metric it divides by
RatioOf == [pe_ratio       |-> [num |-> "stock_price", den |-> "eps"],
            revenue_growth |-> [num |-> "current_revenue", den |-> "previous_revenue"],
            profit_margin  |-> [num |-> "net_income", den |-> "revenue"]]

\* x is a number: neither an infinity nor NaN
Finite(x) == x.e < 1024

\* x is greater than zero: a positive number or the positive infinity
StrictlyPositive(x) == (Finite(x) \/ x = Inf(1)) /\ x.sign > 0 /\ x.m # << >>

\* C3: calculate_financial_ratios never divides by zero and never yields infinity or
\* NaN: it never raises, every ratio it returns is a finite float, and a ratio is absent
\* whenever its denominator metric is missing or not strictly positive or its numerator
\* metric is missing.
C3_NoDivisionByZero ==
    /\ pc # "raise" /\ raised = "none"
    /\ pc = "return" =>
          /\ DOMAIN ratios \subseteq DOMAIN RatioOf
          /\ \A r \in DOMAIN ratios : Finite(ratios[r])
          /\ \A r \in DOMAIN RatioOf :
                (\/ RatioOf[r].den \notin DOMAIN metrics
                 \/ RatioOf[r].num \notin DOMAIN metrics
                 \/ ~ StrictlyPositive(metrics[RatioOf[r].den])) => r \notin DOMAIN ratios

\* the value the specification gives each ratio, in float arithmetic
SpecifiedRatio(r, m) ==
    CASE r = "pe_ratio" -> PyDiv(m["stock_price"], m["eps"]).val
      [] r = "revenue_growth" ->
            PyMul(PyDiv(PySub(m["current_revenue"], m["previous_revenue"]),
                        m["previous_revenue"]).val, Num(100))
      [] r = "profit_margin" ->
            PyMul(PyDiv(m["net_income"], m["revenue"]).val, Num(100))

\* C4: each ratio is gated on its own two metrics only: it is present exactly when both
\* are present and the denominator is positive, with the specified value, whatever the
\* other metrics and ratios are.
C4_IndependentGates ==
    pc = "return" =>
        \A r \in DOMAIN RatioOf :
            /\ r \in DOMAIN ratios <=>
                  /\ RatioOf[r].num \in DOMAIN metrics
                  /\ RatioOf[r].den \in DOMAIN metrics
                  /\ StrictlyPositive(metrics[RatioOf[r].den])
            /\ r \in DOMAIN ratios => ratios[r] = SpecifiedRatio(r, metrics)

\* 150 / 5 is 30, next to a profit margin that is not computable
C4_Witness ==
    /\ pc = "return"
    /\ metrics = [stock_price |-> Num(150), eps |-> Num(5), net_income |-> Num(50),
                  revenue |-> Num(0)]
    /\ ratios = [pe_ratio |-> Num(30)]

(***************************************************************************)
(* extract_key_dates                                                       *)
(***************************************************************************)
MonthNames ==
    <<Str("January"), Str("February"), Str("March"), Str("April"), Str("May"), Str("June"),
      Str("July"), Str("August"), Str("September"), Str("October"), Str("November"),
      Str("December")>>

date_patterns == <<
    \* \b\d{1,2}/\d{1,2}/\d{4}\b
    <<WordB, Between(DecimalDigit, 1, 2), Lit(Str("/")), Between(DecimalDigit, 1, 2),
      Lit(Str("/")), Exactly(DecimalDigit, 4), WordB>>,
    \* \b\d{4}-\d{1,2}-\d{1,2}\b
    <<WordB, Exactly(DecimalDigit, 4), Lit(Str("-")), Between(DecimalDigit, 1, 2),
      Lit(Str("-")), Between(DecimalDigit, 1, 2), WordB>>,
    \* \b(?:January|...|December)\s+\d{1,2},?\s+\d{4}\b
    <<WordB, Alt(MonthNames), Plus(Space), Between(DecimalDigit, 1, 2), Quest({Ord[","]}),
      Plus(Space), Exactly(DecimalDigit, 4), WordB>> >>

RECURSIVE ExtendAll(_, _)
\* the list dates after the for loop has run from pattern k on: dates.extend(matches)
ExtendAll(txt, k) ==
    IF k > Len(date_patterns) THEN << >>
    ELSE LET matches == FindAll(date_patterns[k], txt, FALSE)
         IN  [i \in 1..Len(matches) |-> matches[i].s] \o ExtendAll(txt, k + 1)

\* set(l)
SetOf(l) == {l[i] : i \in 1..Len(l)}

\* the lists list(S) may be: the elements of S, each once, in any order
ListsOf(S) ==
    {l \in [1..Cardinality(S) -> S] : \A i, j \in 1..Cardinality(S) : l[i] = l[j] => i = j}

\* the function returning the collected list itself, duplicates and all
extract_key_dates_as_collected(txt) == {ExtendAll(txt, 1)}

\* the lists extract_key_dates may return: list(set(dates)) fixes no order
extract_key_dates(txt) == ListsOf(SetOf(ExtendAll(txt, 1)))

\* the pieces of the texts tried; <<233>> is the letter e with an acute accent,
\* <<1633>> the Arabic-Indic digit one and <<160>> the no-break space
DateFragments ==
    {Str("Filed on 03/15/2024"), Str(" and again "), Str("2024-03-16"),
     Str("March 5, 2024"), Str("1/2/20"), Str("24"), Str("x"), <<233>>,
     <<1633>> \o Str("/2/2024"), Str("May") \o <<160>> \o Str("7,") \o <<160>> \o Str("2024")}

DateTexts == Concats(DateFragments, MaxDateFragments)

InitDates ==
    /\ pc = "call"
    /\ text \in DateTexts
    /\ metrics = EmptyDict
    /\ analysis = EmptyDict
    /\ doc_type = ""
    /\ dates = << >>
    /\ ratios = EmptyDict
    /\ summary = << >>
    /\ raised = "none"
    /\ PdfIdle

ExtractKeyDates ==
    /\ pc = "call"
    /\ dates' \in extract_key_dates(text)
    /\ pc' = "return"
    /\ UNCHANGED <<text, metrics, analysis, doc_type, ratios, summary, raised, pdfvars>>

NextDates == ExtractKeyDates

SpecDates == InitDates /\ [][NextDates]_vars

\* the substrings of t that pat matches, wherever they start
MatchedSubstrings(pat, t) ==
    {SubSeq(t, p, MatchFrom(pat, 1, t, p, << >>, FALSE).end - 1) :
        p \in {q \in 1..(Len(t) + 1) : MatchFrom(pat, 1, t, q, << >>, FALSE).ok}}

\* C9: extract_key_dates returns, without duplicates, exactly the literal substrings
\* matched by any of the three date patterns: every match is in the result, nothing
\* else is, and a date occurring several times in the text is listed once.
C9_DatesExactlyTheMatches ==
    pc = "return" =>
        /\ \A i, j \in 1..Len(dates) : dates[i] = dates[j] => i = j
        /\ SetOf(dates) = UNION {MatchedSubstrings(date_patterns[k], text) :
                                     k \in 1..Len(date_patterns)}
        /\ text = Str("Filed on 03/15/2024 and again 2024-03-16") =>
              SetOf(dates) = {Str("03/15/2024"), Str("2024-03-16")}

\* the same date twice in the text, once in the result
C9_Witness ==
    /\ pc = "return"
    /\ text = Str("Filed on 03/15/2024 and again Filed on 03/15/2024")
    /\ dates = <<Str("03/15/2024")>>

(***************************************************************************)
(* generate_investment_summary                                             *)
(*                                                                         *)
(* A number of the analysis record is an integer count of hundredths       *)
(* (12345 is 123.45); a text is a string.  The one non-ASCII character of  *)
(* the template is written U+1F4CA.                                        *)
(***************************************************************************)
DigitStr(d) == SubSeq("0123456789", d + 1, d + 1)

RECURSIVE NatStr(_)
NatStr(n) == IF n < 10 THEN DigitStr(n) ELSE NatStr(n \div 10) \o DigitStr(n % 10)

RECURSIVE Grouped(_)
\* the digits of n with a comma before every group of three
Grouped(n) ==
    IF n < 1000 THEN NatStr(n)
    ELSE Grouped(n \div 1000) \o "," \o DigitStr((n % 1000) \div 100)
             \o DigitStr((n \div 10) % 10) \o DigitStr(n % 10)

\* a non-negative count of hundredths rounded to units, ties to the even unit
RoundHalfEven(a) ==
    LET q == a \div 100
        r == a % 100
    IN  IF r < 50 THEN q
        ELSE IF r > 50 THEN q + 1
        ELSE IF q % 2 = 0 THEN q ELSE q + 1

\* format(v, fmt) for the format specifications of the template
PyFormat(v, fmt) ==
    CASE fmt = ""     -> v
      [] fmt = ".2f"  -> (IF v < 0 THEN "-" ELSE "") \o NatStr(Abs(v) \div 100) \o "."
                            \o DigitStr((Abs(v) \div 10) % 10) \o DigitStr(Abs(v) % 10)
      [] fmt = "+.2f" -> (IF v < 0 THEN "-" ELSE "+") \o NatStr(Abs(v) \div 100) \o "."
                            \o DigitStr((Abs(v) \div 10) % 10) \o DigitStr(Abs(v) % 10)
      [] fmt = ",.0f" -> (IF v < 0 THEN "-" ELSE "") \o Grouped(RoundHalfEven(Abs(v)))

\* the replacement fields of the template, in the order they are evaluated
TemplateFields == <<
    [path |-> <<"symbol">>, fmt |-> ""],
    [path |-> <<"company_name">>, fmt |-> ""],
    [path |-> <<"sector">>, fmt |-> ""],
    [path |-> <<"current_price">>, fmt |-> ".2f"],
    [path |-> <<"price_changes", "1_day">>, fmt |-> "+.2f"],
    [path |-> <<"price_changes", "1_week">>, fmt |-> "+.2f"],
    [path |-> <<"price_changes", "1_month">>, fmt |-> "+.2f"],
    [path |-> <<"pe_ratio">>, fmt |-> ".2f"],
    [path |-> <<"market_cap">>, fmt |-> ",.0f"],
    [path |-> <<"fundamentals", "profit_margin">>, fmt |-> ".2f"],
    [path |-> <<"technical_indicators", "volatility">>, fmt |-> ".2f"],
    [path |-> <<"technical_indicators", "ma_20">>, fmt |-> ".2f"],
    [path |-> <<"technical_indicators", "ma_50">>, fmt |-> ".2f"] >>

\* the literal text of the template: TemplateText[k] precedes field k
TemplateText == <<
    "\n        U+1F4CA **Investment Summary for ",
    "**\n        \n        **Company**: ",
    "\n        **Sector**: ",
    "\n        **Current Price**: $",
    "\n        \n        **Performance**:\n        - 1 Day: ",
    "%\n        - 1 Week: ",
    "%\n        - 1 Month: ",
    "%\n        \n        **Key Metrics**:\n        - P/E Ratio: ",
    "\n        - Market Cap: $",
    "\n        - Profit Margin: ",
    "%\n        - Volatility: ",
    "%\n        \n        **Technical Analysis**:\n        - 20-day MA: $",
    "\n        - 50-day MA: $",
    "\n        " >>

\* whether a[path[1]] or a[path[1]][path[2]] finds its keys
Present(a, path) ==
    /\ path[1] \in DOMAIN a
    /\ Len(path) = 2 => path[2] \in DOMAIN a[path[1]]

Lookup(a, path) == IF Len(path) = 1 THEN a[path[1]] ELSE a[path[1]][path[2]]

RECURSIVE RenderFrom(_, _)
\* the f-string from field k on: the first field whose key is missing raises
RenderFrom(a, k) ==
    IF k > Len(TemplateFields) THEN [exc |-> "none", s |-> TemplateText[k]]
    ELSE IF ~Present(a, TemplateFields[k].path) THEN [exc |-> "KeyError", s |-> ""]
    ELSE LET rest == RenderFrom(a, k + 1)
         IN  IF rest.exc # "none" THEN rest
             ELSE [exc |-> "none",
                   s   |-> TemplateText[k]
                             \o PyFormat(Lookup(a, TemplateFields[k].path), TemplateFields[k].fmt)
                             \o rest.s]

\* the function with the error check placed after the template
generate_investment_summary_template_first(a) ==
    LET rendered == RenderFrom(a, 1)
    IN  IF rendered.exc # "none" THEN rendered
        ELSE IF "error" \in DOMAIN a
             THEN [exc |-> "none", s |-> "Unable to generate summary: " \o PyFormat(a["error"], "")]
             ELSE rendered

generate_investment_summary(a) ==
    IF "error" \in DOMAIN a
    THEN [exc |-> "none", s |-> "Unable to generate summary: " \o PyFormat(a["error"], "")]
    ELSE RenderFrom(a, 1)

\* the error texts get_stock_analysis produces
ErrorTexts == {"No data found for symbol", "Error fetching stock data: timeout"}

\* two complete analysis records, as get_stock_analysis lays them out
Quotes == {
    [symbol |-> "ACME", company_name |-> "Acme Corp", sector |-> "Technology",
     current_price |-> 12345, market_cap |-> 123456750, pe_ratio |-> 2150,
     price_changes |-> [1_day |-> 0 - 150, 1_week |-> 0, 1_month |-> 275],
     technical_indicators |-> [ma_20 |-> 12001, ma_50 |-> 11890, volatility |-> 3412],
     fundamentals |-> [eps |-> 574, revenue |-> 98700, profit_margin |-> 1234,
                       debt_to_equity |-> 4500]],
    [symbol |-> "Z", company_name |-> "N/A", sector |-> "N/A",
     current_price |-> 5, market_cap |-> 250, pe_ratio |-> 0,
     price_changes |-> [1_day |-> 1000, 1_week |-> 0 - 5, 1_month |-> 0 - 12345],
     technical_indicators |-> [ma_20 |-> 7, ma_50 |-> 100, volatility |-> 0],
     fundamentals |-> [eps |-> 0, revenue |-> 0, profit_margin |-> 0,
                       debt_to_equity |-> 0]] }

NestedKeys == {"1_week", "profit_margin", "ma_50"}

\* d without key k
Without(d, k) == [x \in DOMAIN d \ {k} |-> d[x]]

\* record q with only the top-level keys keep, and nested key drop removed
Partial(q, keep, drop) ==
    [k \in keep |-> IF k \in {"price_changes", "technical_indicators", "fundamentals"}
                    THEN Without(q[k], drop) ELSE q[k]]

\* quote records with any fields missing, with or without an error field
SummaryInputs ==
    LET partials == {Partial(q, keep, drop) :
                        q \in Quotes, keep \in SUBSET DOMAIN (CHOOSE q \in Quotes : TRUE),
                        drop \in NestedKeys \cup {"none"}}
    IN  partials \cup {DictPut(a, "error", e) : a \in partials, e \in ErrorTexts}

InitSummary ==
    /\ pc = "call"
    /\ analysis \in SummaryInputs
    /\ text = << >>
    /\ metrics = EmptyDict
    /\ doc_type = ""
    /\ dates = << >>
    /\ ratios = EmptyDict
    /\ summary = ""
    /\ raised = "none"
    /\ PdfIdle

GenerateInvestmentSummary ==
    /\ pc = "call"
    /\ \E r \in {generate_investment_summary(analysis)} :
          /\ summary' = r.s
          /\ raised' = r.exc
          /\ pc' = IF r.exc = "none" THEN "return" ELSE "raise"
    /\ UNCHANGED <<text, metrics, analysis, doc_type, dates, ratios, pdfvars>>

NextSummary == GenerateInvestmentSummary

SpecSummary == InitSummary /\ [][NextSummary]_vars

\* the numeric report fields of a, as the template would print them
NumericFields(a) ==
    {PyFormat(Lookup(a, TemplateFields[k].path), TemplateFields[k].fmt) :
        k \in {j \in 1..Len(TemplateFields) :
                  TemplateFields[j].fmt # "" /\ Present(a, TemplateFields[j].path)}}

\* C10: on a record with an error field generate_investment_summary never raises,
\* whatever other fields are missing, and returns a message that embeds the exact
\* error text and none of the numeric report fields; the multi-line report template
\* is rendered only for records without an error field.
C10_ErrorRecordSummary ==
    /\ (pc = "call" /\ "error" \in DOMAIN analysis) =>
          generate_investment_summary(analysis).exc = "none"
    /\ (pc # "call" /\ "error" \in DOMAIN analysis) =>
          /\ pc = "return"
          /\ raised = "none"
          /\ StrIn(analysis["error"], summary)
          /\ \A f \in NumericFields(analysis) : ~StrIn(f, summary)
    /\ (pc = "return" /\ StrIn(TemplateText[1], summary)) => "error" \notin DOMAIN analysis

\* an error record with numeric fields present and others missing, summarised
C10_Witness ==
    /\ pc = "return"
    /\ "error" \in DOMAIN analysis
    /\ analysis["error"] = "No data found for symbol"
    /\ DOMAIN analysis = {"error", "current_price", "price_changes"}
    /\ summary = "Unable to generate summary: No data found for symbol"

(***************************************************************************)
(* analyze_financial_document (app.py): the three extractions it starts    *)
(* with, run one after the other on the same text.                         *)
(***************************************************************************)
AnalyzeFragments ==
    {Str("revenue"), Str(": 5"), Str("revenue: ,"), Str("sales: 7b"), Str(" and EPS: $3.21"),
     Str("net income: 2,000"), Str("Filed on 03/15/2024"), Str("10-K "),
     Str("10-") \o <<8490>> \o Str(" Revenue:") \o <<160>> \o Str("4.1 million")}

AnalyzeTexts == Concats(AnalyzeFragments, MaxAnalyzeFragments)

InitAnalyze ==
    /\ pc = "call"
    /\ text \in AnalyzeTexts
    /\ metrics = EmptyDict
    /\ analysis = EmptyDict
    /\ doc_type = ""
    /\ dates = << >>
    /\ ratios = EmptyDict
    /\ summary = ""
    /\ raised = "none"
    /\ PdfIdle

\* extracted_metrics = FinancialAnalyzer.extract_financial_metrics(content['text'])
AnalyzeExtractMetrics ==
    /\ pc = "call"
    /\ \E r \in {extract_financial_metrics(text)} :
          /\ raised' = r.exc
          /\ pc' = IF r.exc = "none" THEN "metrics_extracted" ELSE "raise"
          /\ metrics' = IF r.exc = "none" THEN r.metrics ELSE metrics
    /\ UNCHANGED <<text, analysis, doc_type, dates, ratios, summary, pdfvars>>

\* doc_type = FinancialAnalyzer.identify_document_type(content['text'])
AnalyzeIdentifyType ==
    /\ pc = "metrics_extracted"
    /\ doc_type' = identify_document_type(text)
    /\ pc' = "type_identified"
    /\ UNCHANGED <<text, metrics, analysis, dates, ratios, summary, raised, pdfvars>>

\* key_dates = FinancialAnalyzer.extract_key_dates(content['text'])
AnalyzeExtractDates ==
    /\ pc = "type_identified"
    /\ dates' \in extract_key_dates(text)
    /\ pc' = "dates_extracted"
    /\ UNCHANGED <<text, metrics, analysis, doc_type, ratios, summary, raised, pdfvars>>

NextAnalyze == AnalyzeExtractMetrics \/ AnalyzeIdentifyType \/ AnalyzeExtractDates

SpecAnalyze == InitAnalyze /\ [][NextAnalyze]_vars

\* some pattern of the list matches somewhere in t
HasMatch(pats, t) ==
    \E k \in 1..Len(pats) : \E p \in 1..(Len(t) + 1) :
        MatchFrom(pats[k], 1, t, p, [g \in 1..NGroups(pats[k]) |-> NoGroup], TRUE).ok

\* C11: absent means absent: a metric family none of whose patterns matches the text
\* has no key in the extracted metrics (no zero or null placeholder), so every key of
\* the result comes from a match; for the empty text the metrics are the empty mapping
\* and extract_key_dates returns the empty list.
C11_AbsentMeansAbsent ==
    /\ pc \in {"metrics_extracted", "type_identified", "dates_extracted"} =>
          /\ DOMAIN metrics \subseteq DOMAIN Families
          /\ \A f \in DOMAIN Families :
                ~HasMatch(Families[f], text) => f \notin DOMAIN metrics
          /\ text = << >> => metrics = EmptyDict
    /\ (pc = "dates_extracted" /\ text = << >>) => dates = << >>

\* one family extracted and the two without a match absent, after both extractions
C11_Witness ==
    /\ pc = "dates_extracted"
    /\ text = Str("sales: 7bFiled on 03/15/2024")
    /\ metrics = [revenue |-> Dec(7, 9)]
    /\ dates = <<Str("03/15/2024")>>

(***************************************************************************)
(* extract_pdf_content (app.py).  One action per statement that touches    *)
(* the temporary file or the document handle.  A page is its text and      *)
(* whether the library can extract its text and render it; an image is     *)
(* kept as the number of the page it shows.                                *)
(***************************************************************************)
PageKinds ==
    {[text |-> "Revenue: $5 million", text_ok |-> TRUE, image_ok |-> TRUE],
     [text |-> "", text_ok |-> TRUE, image_ok |-> TRUE],
     [text |-> "", text_ok |-> FALSE, image_ok |-> TRUE],
     [text |-> "10-K", text_ok |-> TRUE, image_ok |-> FALSE]}

\* the uploads: documents of 1..MaxPages pages, a file that is no PDF, and an upload
\* whose read() fails
PdfFiles ==
    {[readable |-> TRUE, valid |-> TRUE, pages |-> ps] :
        ps \in UNION {[1..n -> PageKinds] : n \in 1..MaxPages}}
    \cup {[readable |-> TRUE, valid |-> FALSE, pages |-> << >>],
          [readable |-> FALSE, valid |-> TRUE, pages |-> << >>]}

\* what len(doc) may give for a closed document: the library decides (PyMuPDF raises
\* ValueError); an open document gives its page count
LenOutcomes(handle, file) ==
    IF handle = "open" THEN {[exc |-> "none", val |-> Len(file.pages)]}
    ELSE {[exc |-> "ValueError", val |-> 0], [exc |-> "none", val |-> Len(file.pages)]}

InitPdf ==
    /\ pc = "call"
    /\ pdf_file \in PdfFiles
    /\ tmp_file = "none"
    /\ doc = "none"
    /\ page_num = 0
    /\ full_text = ""
    /\ images = << >>
    /\ content = EmptyDict
    /\ text = << >>
    /\ metrics = EmptyDict
    /\ analysis = EmptyDict
    /\ doc_type = ""
    /\ dates = << >>
    /\ ratios = EmptyDict
    /\ summary = ""
    /\ raised = "none"

\* with tempfile.NamedTemporaryFile(delete=False, ...) as tmp_file:
\*     tmp_file.write(pdf_file.read()); tmp_path = tmp_file.name
WriteTempFile ==
    /\ pc = "call"
    /\ tmp_file' = "exists"
    /\ IF pdf_file.readable
       THEN pc' = "open_doc" /\ raised' = raised
       ELSE pc' = "raise" /\ raised' = "IOError"
    /\ UNCHANGED <<text, metrics, analysis, doc_type, dates, ratios, summary,
                   pdf_file, doc, page_num, full_text, images, content>>

\* doc = fitz.open(tmp_path); full_text = ""; for page_num in range(len(doc)):
OpenDocument ==
    /\ pc = "open_doc"
    /\ IF pdf_file.valid
       THEN /\ doc' = "open"
            /\ pc' = "text_loop"
            /\ raised' = raised
       ELSE /\ doc' = doc
            /\ pc' = "raise"
            /\ raised' = "FileDataError"
    /\ page_num' = 0
    /\ full_text' = ""
    /\ UNCHANGED <<text, metrics, analysis, doc_type, dates, ratios, summary,
                   pdf_file, tmp_file, images, content>>

\* page = doc[page_num]; full_text += f"\n--- Page {page_num + 1} ---\n"
\* full_text += page.get_text()
ExtractPageText ==
    /\ pc = "text_loop"
    /\ page_num < Len(pdf_file.pages)
    /\ IF pdf_file.pages[page_num + 1].text_ok
       THEN /\ full_text' = full_text \o "\n--- Page " \o NatStr(page_num + 1) \o " ---\n"
                               \o pdf_file.pages[page_num + 1].text
            /\ page_num' = page_num + 1
            /\ pc' = pc
            /\ raised' = raised
       ELSE /\ full_text' = full_text \o "\n--- Page " \o NatStr(page_num + 1) \o " ---\n"
            /\ page_num' = page_num
            /\ pc' = "raise"
            /\ raised' = "RuntimeError"
    /\ UNCHANGED <<text, metrics, analysis, doc_type, dates, ratios, summary,
                   pdf_file, tmp_file, doc, images, content>>

\* the text loop ends; images = []; for page_num in range(len(doc)):
StartImageLoop ==
    /\ pc = "text_loop"
    /\ page_num = Len(pdf_file.pages)
    /\ pc' = "image_loop"
    /\ page_num' = 0
    /\ images' = << >>
    /\ UNCHANGED <<text, metrics, analysis, doc_type, dates, ratios, summary, raised,
                   pdf_file, tmp_file, doc, full_text, content>>

\* page = doc[page_num]; pix = page.get_pixmap(dpi=150); ...; images.append({...})
ExtractPageImage ==
    /\ pc = "image_loop"
    /\ page_num < Len(pdf_file.pages)
    /\ IF pdf_file.pages[page_num + 1].image_ok
       THEN /\ images' = Append(images, [type |-> "image_url", page |-> page_num + 1])
            /\ page_num' = page_num + 1
            /\ pc' = pc
            /\ raised' = raised
       ELSE /\ images' = images
            /\ page_num' = page_num
            /\ pc' = "raise"
            /\ raised' = "RuntimeError"
    /\ UNCHANGED <<text, metrics, analysis, doc_type, dates, ratios, summary,
                   pdf_file, tmp_file, doc, full_text, content>>

\* the image loop ends; doc.close()
CloseDocument ==
    /\ pc = "image_loop"
    /\ page_num = Len(pdf_file.pages)
    /\ doc' = "closed"
    /\ pc' = "unlink"
    /\ UNCHANGED <<text, metrics, analysis, doc_type, dates, ratios, summary, raised,
                   pdf_file, tmp_file, page_num, full_text, images, content>>

\* os.unlink(tmp_path)
UnlinkTempFile ==
    /\ pc = "unlink"
    /\ tmp_file' = "deleted"
    /\ pc' = "page_count"
    /\ UNCHANGED <<text, metrics, analysis, doc_type, dates, ratios, summary, raised,
                   pdf_file, doc, page_num, full_text, images, content>>

\* return {"text": full_text, "images": images, "page_count": len(doc)}
ReturnContent ==
    /\ pc = "page_count"
    /\ \E n \in LenOutcomes(doc, pdf_file) :
          IF n.exc = "none"
          THEN /\ content' = [text |-> full_text, images |-> images, page_count |-> n.val]
               /\ pc' = "return"
               /\ raised' = raised
          ELSE /\ content' = content
               /\ pc' = "raise"
               /\ raised' = n.exc
    /\ UNCHANGED <<text, metrics, analysis, doc_type, dates, ratios, summary,
                   pdf_file, tmp_file, doc, page_num, full_text, images>>

NextPdf ==
    \/ WriteTempFile
    \/ OpenDocument
    \/ ExtractPageText
    \/ StartImageLoop
    \/ ExtractPageImage
    \/ CloseDocument
    \/ UnlinkTempFile
    \/ ReturnContent

SpecPdf == InitPdf /\ [][NextPdf]_vars

\* the positions whose statement reads the document handle: the page text, the page
\* image, the page count
DocReads == {"text_loop", "image_loop", "page_count"}

\* C12: the page count is captured before the document is released: wherever control
\* stands at a statement that reads the document handle (page text, page image or page
\* count), the handle is open, so no read follows the close.
C12_NoReadAfterClose == pc \in DocReads => doc = "open"

\* C13: the temporary file has a guaranteed release: whenever the operation has ended,
\* by returning or by raising, a temporary file it created has been deleted.
C13_TempFileReleased ==
    (pc \in {"return", "raise"} /\ tmp_file # "none") => tmp_file = "deleted"

====
